---- MODULE Spec2Model ----
(***************************************************************************)
(* The margin engine of oraidex/perpetuals as a state machine.             *)
(*                                                                         *)
(* The engine's persistent key-value storage is the record `store`.  A     *)
(* handler is an operator from (store, environment, message) to a result   *)
(* [ok, err, store, msgs]; the host applies it: an Err discards every      *)
(* write, an Ok keeps the writes and dispatches the returned submessages   *)
(* one after the other, calling `reply` with each one's outcome.           *)
(***************************************************************************)
EXTENDS Integers, Sequences, FiniteSets, TLC

VARIABLES
    store,      \* the engine's storage as the running transaction sees it
    committed,  \* the storage as of the last commit (what a rollback restores)
    queue,      \* submessages issued and not yet answered (reply_always)
    height,     \* env.block.height
    reserve,    \* the vAMM's pool: [quote_asset_reserve, base_asset_reserve]
    result,     \* outcome of the last request: "" while awaited, "ok" or the error text
    calc        \* inputs and output of the margin calculator taken on its own

vars == <<store, committed, queue, height, reserve, result, calc>>

----------------------------------------------------------------------------
(* Bounds of the model *)

MaxPositionId == 1
MaxBatchPositionId == 2
MaxHeight == 2
MaxFunding == 1
MaxMargin == 10
MinMargin == 5
MaxDepositedMargin == 15
MaxFundingRounds == 2
MaxStaked == 3
MaxRewardsPerToken == 10

(* Program constants *)

Decimals == 10
InitialMarginRatio == 3
MaintenanceMarginRatio == 2
LiquidationFee == 1
TpSlSpread == 0

INCREASE_POSITION_REPLY_ID == 1
CLOSE_POSITION_REPLY_ID == 2
PARTIAL_CLOSE_POSITION_REPLY_ID == 3
LIQUIDATION_REPLY_ID == 4
PARTIAL_LIQUIDATION_REPLY_ID == 5
PAY_FUNDING_REPLY_ID == 6
TRANSFER_FAILURE_REPLY_ID == 9

ReplyIds ==
    { INCREASE_POSITION_REPLY_ID, CLOSE_POSITION_REPLY_ID,
      PARTIAL_CLOSE_POSITION_REPLY_ID, LIQUIDATION_REPLY_ID,
      PARTIAL_LIQUIDATION_REPLY_ID, PAY_FUNDING_REPLY_ID }

(* Input sets *)

Owner == "owner"
Traders == {"alice", "bob"}
Addrs == Traders \cup {Owner}
WhitelistSet == {"alice"}
Openers == {"alice"}
NoAddr == ""
Vamms == {"vamm"}
Sides == {"Buy", "Sell"}
BaseReserve == 1000
QuoteReserveSet == {400, 700, 1000}
ReserveSet ==
    {[quote_asset_reserve |-> q, base_asset_reserve |-> BaseReserve] : q \in QuoteReserveSet}
MarginSet == {10}
LeverageSet == {20}
PremiumSet == {5}
FundingPremiumSet == {0 - 3, 5}
PartialRatioSet == {0, 5}
AmountSet == {5}

None == -1
Unwrap(o) == IF o = None THEN 0 ELSE o
TpSlSet == {None, 7}
\* open requests of every shape: zero and sub-1x leverage, zero margin, and
\* take profit / stop loss below, at and above the quoted entry prices
OpenLeverageSet == {0, 5, 20}
OpenMarginSet == {0, 10}
OpenTpSlSet == {None, 7, 10}
LimitSet == {2}

----------------------------------------------------------------------------
(* Integer (signed magnitude) and map helpers *)

Abs(x) == IF x < 0 THEN -x ELSE x

\* Integer / Integer: the magnitudes are divided, the sign is the product's
IntegerDiv(a, b) ==
    IF (a < 0) = (b < 0) THEN Abs(a) \div Abs(b) ELSE -(Abs(a) \div Abs(b))

Max(a, b) == IF a > b THEN a ELSE b

EmptyMap == [x \in {} |-> 0]
Put(f, k, v) == [x \in (DOMAIN f) \cup {k} |-> IF x = k THEN v ELSE f[x]]
Del(f, k) == [x \in (DOMAIN f) \ {k} |-> f[x]]
Has(f, k) == k \in DOMAIN f

Ok(s, msgs) == [ok |-> TRUE, err |-> "", store |-> s, msgs |-> msgs]
Err(s, e) == [ok |-> FALSE, err |-> e, store |-> s, msgs |-> <<>>]

----------------------------------------------------------------------------
(* The collaborators.  The vAMM is a constant-product pool; its reserves   *)
(* are its own state, which other parties move between the engine's        *)
(* transactions.                                                           *)

Env(h, rsv, sender) ==
    [height |-> h, sender |-> sender,
     quote_asset_reserve |-> rsv.quote_asset_reserve,
     base_asset_reserve |-> rsv.base_asset_reserve,
     twap_quote_reserve |-> rsv.quote_asset_reserve,
     is_vamm |-> TRUE, vamm_open |-> TRUE, over_price_diff |-> FALSE,
     over_fluctuation |-> FALSE, vamm_initial_margin_ratio |-> 0,
     open_interest_notional_cap |-> 0,
     toll_ratio |-> 0, spread_ratio |-> 0]

\* base amount bought (AddToAmm) or sold (RemoveFromAmm) for a quote amount
get_input_price_with_reserves(direction, quote_asset_amount, quote_reserve, base_reserve) ==
    IF quote_asset_amount = 0 THEN 0
    ELSE LET invariant_k == quote_reserve * base_reserve
             quote_after == IF direction = "AddToAmm"
                            THEN quote_reserve + quote_asset_amount
                            ELSE quote_reserve - quote_asset_amount
         IN Abs((invariant_k \div quote_after) - base_reserve)

\* quote amount received (base AddToAmm) or paid (base RemoveFromAmm) for a base amount
get_output_price_with_reserves(direction, base_asset_amount, quote_reserve, base_reserve) ==
    IF base_asset_amount = 0 THEN 0
    ELSE LET invariant_k == quote_reserve * base_reserve
             base_after == IF direction = "AddToAmm"
                           THEN base_reserve + base_asset_amount
                           ELSE base_reserve - base_asset_amount
         IN Abs((invariant_k \div base_after) - quote_reserve)

query_input_price(env, direction, amount) ==
    LET output == get_input_price_with_reserves(direction, amount,
                      env.quote_asset_reserve, env.base_asset_reserve) IN
    IF output = 0 THEN 0 ELSE (amount * Decimals) \div output

query_output_amount(env, direction, amount) ==
    get_output_price_with_reserves(direction, amount,
        env.quote_asset_reserve, env.base_asset_reserve)

query_output_twap(env, direction, amount) ==
    get_output_price_with_reserves(direction, amount,
        env.twap_quote_reserve, env.base_asset_reserve)

query_calc_fee(env, quote_asset_amount) ==
    IF quote_asset_amount = 0 THEN [toll_fee |-> 0, spread_fee |-> 0]
    ELSE [toll_fee |-> (quote_asset_amount * env.toll_ratio) \div Decimals,
          spread_fee |-> (quote_asset_amount * env.spread_ratio) \div Decimals]

\* the oracle price the vAMM relays: here the pool's own spot price
underlying_price(env) ==
    (env.quote_asset_reserve * Decimals) \div env.base_asset_reserve

----------------------------------------------------------------------------
(* state.rs *)

InitStore ==
    [ config |->
        [ owner |-> Owner,
          insurance_fund |-> "insurance",
          decimals |-> Decimals,
          initial_margin_ratio |-> InitialMarginRatio,
          maintenance_margin_ratio |-> MaintenanceMarginRatio,
          partial_liquidation_ratio |-> 0,
          tp_sl_spread |-> TpSlSpread,
          liquidation_fee |-> LiquidationFee ],
      trading_config |->
        [ enable_whitelist |-> FALSE,
          max_notional_size |-> 1000000,
          min_leverage |-> Decimals ],
      state |->
        [ open_interest_notional |-> 0,
          prepaid_bad_debt |-> 0,
          pause |-> "None" ],
      pauser |-> Owner,
      whitelist |-> {},
      whitelist_trader |-> {},
      relayer |-> {},
      last_position_id |-> 0,
      positions |-> EmptyMap,
      tick |-> EmptyMap,
      by_trader |-> EmptyMap,
      by_side |-> EmptyMap,
      by_price |-> EmptyMap,
      tmp_swap |-> EmptyMap,
      tmp_liquidator |-> NoAddr,
      sent_funds |-> None,
      vamm_map |->
        [ v \in Vamms |->
            [ last_restriction_block |-> 0,
              cumulative_premium_fractions |-> <<>> ] ] ]

side_to_direction(side) == IF side = "Buy" THEN "AddToAmm" ELSE "RemoveFromAmm"
direction_to_side(direction) == IF direction = "AddToAmm" THEN "Buy" ELSE "Sell"
position_to_side(size) == IF size > 0 THEN "Sell" ELSE "Buy"

RemovePositionKeepsTick(s, vamm, position) ==
    LET id == position.position_id
    IN [s EXCEPT
          !.positions = Del(s.positions, <<vamm, id>>),
          !.by_trader = Del(s.by_trader, <<vamm, position.trader, id>>),
          !.by_side = Del(s.by_side, <<vamm, position.side, id>>),
          !.by_price = Del(s.by_price, <<vamm, position.entry_price, id>>)]

remove_position(s, vamm, position) ==
    LET id == position.position_id
        tkey == <<vamm, position.side, position.entry_price>>
        total == IF Has(s.tick, tkey) THEN s.tick[tkey] ELSE 0
    IN [s EXCEPT
          !.positions = Del(s.positions, <<vamm, id>>),
          !.tick = IF total > 0
                   THEN IF total - 1 > 0 THEN Put(s.tick, tkey, total - 1)
                        ELSE Del(s.tick, tkey)
                   ELSE s.tick,
          !.by_trader = Del(s.by_trader, <<vamm, position.trader, id>>),
          !.by_side = Del(s.by_side, <<vamm, position.side, id>>),
          !.by_price = Del(s.by_price, <<vamm, position.entry_price, id>>)]

StorePositionRemovesClosed(s, vamm, position, inserted) ==
    IF position.size = 0 THEN remove_position(s, vamm, position)
    ELSE LET id == position.position_id
             tkey == <<vamm, position.side, position.entry_price>>
             total == IF Has(s.tick, tkey) THEN s.tick[tkey] ELSE 0
         IN [s EXCEPT
               !.positions = Put(s.positions, <<vamm, id>>, position),
               !.tick = Put(s.tick, tkey, IF inserted THEN total + 1 ELSE total),
               !.by_trader = Put(s.by_trader, <<vamm, position.trader, id>>, position.side),
               !.by_side = Put(s.by_side, <<vamm, position.side, id>>, position.side),
               !.by_price = Put(s.by_price, <<vamm, position.entry_price, id>>, position.side)]

StorePositionAlwaysCounts(s, vamm, position, inserted) ==
    LET id == position.position_id
        tkey == <<vamm, position.side, position.entry_price>>
        total == IF Has(s.tick, tkey) THEN s.tick[tkey] ELSE 0
    IN [s EXCEPT
          !.positions = Put(s.positions, <<vamm, id>>, position),
          !.tick = Put(s.tick, tkey, total + 1),
          !.by_trader = Put(s.by_trader, <<vamm, position.trader, id>>, position.side),
          !.by_side = Put(s.by_side, <<vamm, position.side, id>>, position.side),
          !.by_price = Put(s.by_price, <<vamm, position.entry_price, id>>, position.side)]

store_position(s, vamm, position, inserted) ==
    LET id == position.position_id
        tkey == <<vamm, position.side, position.entry_price>>
        total == IF Has(s.tick, tkey) THEN s.tick[tkey] ELSE 0
    IN [s EXCEPT
          !.positions = Put(s.positions, <<vamm, id>>, position),
          !.tick = Put(s.tick, tkey, IF inserted THEN total + 1 ELSE total),
          !.by_trader = Put(s.by_trader, <<vamm, position.trader, id>>, position.side),
          !.by_side = Put(s.by_side, <<vamm, position.side, id>>, position.side),
          !.by_price = Put(s.by_price, <<vamm, position.entry_price, id>>, position.side)]

StoreTmpSwapSingleSlot(s, swap) ==
    [s EXCEPT !.tmp_swap = Put(s.tmp_swap, 0, swap)]

store_tmp_swap(s, swap) ==
    [s EXCEPT !.tmp_swap = Put(s.tmp_swap, swap.position_id, swap)]

RemoveTmpSwapAll(s, position_id) ==
    [s EXCEPT !.tmp_swap = EmptyMap]

remove_tmp_swap(s, position_id) ==
    [s EXCEPT !.tmp_swap = Del(s.tmp_swap, position_id)]

IncreaseLastPositionIdNever(s) == s

increase_last_position_id(s) ==
    [s EXCEPT !.last_position_id = s.last_position_id + 1]

AppendOverwritesLatest(s, vamm, premium_fraction) ==
    LET fr == s.vamm_map[vamm].cumulative_premium_fractions
    IN [s EXCEPT !.vamm_map[vamm].cumulative_premium_fractions =
          IF Len(fr) = 0 THEN <<premium_fraction>>
          ELSE [fr EXCEPT ![Len(fr)] = premium_fraction + fr[Len(fr)]]]

AppendRawPremiumFraction(s, vamm, premium_fraction) ==
    LET fr == s.vamm_map[vamm].cumulative_premium_fractions
    IN [s EXCEPT !.vamm_map[vamm].cumulative_premium_fractions = Append(fr, premium_fraction)]

append_cumulative_premium_fraction(s, vamm, premium_fraction) ==
    LET fr == s.vamm_map[vamm].cumulative_premium_fractions
        latest == IF Len(fr) = 0 THEN premium_fraction
                  ELSE premium_fraction + fr[Len(fr)]
    IN [s EXCEPT !.vamm_map[vamm].cumulative_premium_fractions = Append(fr, latest)]

enter_restriction_mode(s, vamm, block_height) ==
    [s EXCEPT !.vamm_map[vamm].last_restriction_block = block_height]

query_cumulative_premium_fraction(s, vamm) ==
    LET fr == s.vamm_map[vamm].cumulative_premium_fractions
    IN IF Len(fr) = 0 THEN 0 ELSE fr[Len(fr)]

----------------------------------------------------------------------------
(* utils.rs, query.rs: the margin and PnL calculator *)

GetPnlWithoutSizeGuard(s, env, position, calc_option) ==
    LET output_notional ==
          CASE calc_option = "Twap" ->
                 query_output_twap(env, position.direction, Abs(position.size))
            [] calc_option = "SpotPrice" ->
                 query_output_amount(env, position.direction, Abs(position.size))
            [] OTHER ->
                 (underlying_price(env) * Abs(position.size)) \div s.config.decimals
    IN [position_notional |-> output_notional,
        unrealized_pnl |->
          IF position.direction = "AddToAmm"
          THEN output_notional - position.notional
          ELSE position.notional - output_notional]

\* the queries get_position_notional_unrealized_pnl sends out of the contract
PnlQueries(position, calc_option) ==
    IF position.size = 0 THEN {}
    ELSE CASE calc_option = "Twap" -> {"vamm.output_twap"}
           [] calc_option = "SpotPrice" -> {"vamm.output_amount"}
           [] OTHER -> {"vamm.underlying_price"}

get_position_notional_unrealized_pnl(s, env, position, calc_option) ==
    IF position.size = 0
    THEN [position_notional |-> 0, unrealized_pnl |-> 0]
    ELSE
      LET output_notional ==
            CASE calc_option = "Twap" ->
                   query_output_twap(env, position.direction, Abs(position.size))
              [] calc_option = "SpotPrice" ->
                   query_output_amount(env, position.direction, Abs(position.size))
              [] OTHER ->
                   (underlying_price(env) * Abs(position.size)) \div s.config.decimals
      IN [position_notional |-> output_notional,
          unrealized_pnl |->
            IF position.direction = "AddToAmm"
            THEN output_notional - position.notional
            ELSE position.notional - output_notional]

RemainMarginMutClamp(latest, decimals, position, margin_delta) ==
    LET funding_payment ==
          IntegerDiv((latest - position.last_updated_premium_fraction) * position.size,
                     decimals)
        remaining_margin == margin_delta - funding_payment + position.margin
    IN [funding_payment |-> funding_payment,
        margin |-> Abs(remaining_margin),
        bad_debt |-> IF remaining_margin < 0 THEN -remaining_margin ELSE 0,
        latest_premium_fraction |-> latest]

\* calc_remain_margin_with_funding_payment on the values it reads
RemainMargin(latest, decimals, position, margin_delta) ==
    LET funding_payment ==
          IntegerDiv((latest - position.last_updated_premium_fraction) * position.size,
                     decimals)
        remaining_margin == margin_delta - funding_payment + position.margin
    IN [funding_payment |-> funding_payment,
        margin |-> IF remaining_margin < 0 THEN 0 ELSE remaining_margin,
        bad_debt |-> IF remaining_margin < 0 THEN -remaining_margin ELSE 0,
        latest_premium_fraction |-> latest]

CalcRemainMarginIgnoringFunding(s, position, margin_delta) ==
    RemainMargin(position.last_updated_premium_fraction, s.config.decimals, position, margin_delta)

calc_remain_margin_with_funding_payment(s, position, margin_delta) ==
    RemainMargin(query_cumulative_premium_fraction(s, position.vamm),
                 s.config.decimals, position, margin_delta)

calc_funding_payment(position, latest_premium_fraction, decimals) ==
    IF position.size # 0
    THEN IntegerDiv((latest_premium_fraction - position.last_updated_premium_fraction)
                      * position.size, decimals) * (0 - 1)
    ELSE 0

\* the division panics on a zero notional: DivByZero stands for the abort
DivByZero == "division by zero"

\* query_margin_ratio divides by the quoted notional: a zero quote aborts the call
MarginRatioAborts(s, env, position) ==
    /\ position.size # 0
    /\ get_position_notional_unrealized_pnl(s, env, position, "SpotPrice").position_notional = 0

\* the queries query_margin_ratio sends out of the contract
MarginRatioQueries(position) ==
    IF position.size = 0 THEN {} ELSE PnlQueries(position, "SpotPrice")

query_margin_ratio(s, env, position) ==
    IF position.size = 0 THEN 0
    ELSE
      LET pnl == get_position_notional_unrealized_pnl(s, env, position, "SpotPrice")
          remain == calc_remain_margin_with_funding_payment(s, position, pnl.unrealized_pnl)
      IN IF pnl.position_notional = 0 THEN 0
         ELSE IntegerDiv((remain.margin - remain.bad_debt) * s.config.decimals,
                         pnl.position_notional)

query_trader_position_with_funding_payment(s, vamm, position_id) ==
    LET position == s.positions[<<vamm, position_id>>]
        funding_payment ==
          calc_funding_payment(position, query_cumulative_premium_fraction(s, vamm),
                               s.config.decimals)
        with_funding == position.margin + funding_payment
    IN [position EXCEPT !.margin = IF with_funding > 0 THEN with_funding ELSE 0]

query_free_collateral(s, env, vamm, position_id) ==
    LET position == query_trader_position_with_funding_payment(s, vamm, position_id)
        spot_pnl == get_position_notional_unrealized_pnl(s, env, position, "SpotPrice")
        twap_pnl == get_position_notional_unrealized_pnl(s, env, position, "Twap")
        chosen == IF Abs(spot_pnl.unrealized_pnl) > Abs(twap_pnl.unrealized_pnl)
                  THEN twap_pnl ELSE spot_pnl
        account_value == chosen.unrealized_pnl + position.margin
        minimum_collateral ==
          IF account_value - position.margin > 0 THEN position.margin ELSE account_value
        margin_requirement ==
          IF position.size > 0
          THEN (position.notional * env.vamm_initial_margin_ratio) \div Decimals
          ELSE (chosen.position_notional * env.vamm_initial_margin_ratio) \div Decimals
    IN minimum_collateral - margin_requirement

----------------------------------------------------------------------------
(* utils.rs: the guards.  Each gives "" when it passes, else the error text *)

require_vamm(s, env) ==
    IF s.config.insurance_fund = NoAddr THEN "insurance fund is not registered"
    ELSE IF ~env.is_vamm THEN "vAMM is not registered"
    ELSE IF ~env.vamm_open THEN "vAMM is not open"
    ELSE ""

require_bad_debt(bad_debt) ==
    IF bad_debt # 0 THEN "Insufficient margin" ELSE ""

require_position_not_zero(size) ==
    IF size = 0 THEN "Position is zero" ELSE ""

require_additional_margin(margin_ratio, base_margin) ==
    IF margin_ratio < base_margin THEN "Position is undercollateralized" ELSE ""

RequireInsufficientMarginMutFlipped(margin_ratio, base_margin) ==
    IF margin_ratio < base_margin THEN "Position is overcollateralized" ELSE ""

require_insufficient_margin(margin_ratio, base_margin) ==
    IF margin_ratio > base_margin THEN "Position is overcollateralized" ELSE ""

RestrictionModeIgnoringWhitelist(s, vamm, block_height, trader) ==
    IF s.vamm_map[vamm].last_restriction_block = block_height
    THEN "Only one action allowed" ELSE ""

require_not_restriction_mode(s, vamm, block_height, trader) ==
    IF s.vamm_map[vamm].last_restriction_block = block_height
       /\ trader \notin s.whitelist
    THEN "Only one action allowed" ELSE ""

PauseTypes == {"All", "Open", "Close", "None"}

\* the flag the handlers hand to require_not_paused: every handler passes
\* state.pause itself, whatever operation it guards
Paused(pause) == pause # "None"

RequireNotPausedNever(paused) == ""

require_not_paused(paused) ==
    IF paused THEN "Margin engine is paused" ELSE ""

require_non_zero_input(input) ==
    IF input = 0 THEN "Input must be non-zero" ELSE ""

require_is_not_over_price_diff_limit(env) ==
    IF env.over_price_diff THEN "over price diff limit" ELSE ""

is_whitelisted(s, trader) ==
    IF ~s.trading_config.enable_whitelist THEN ""
    ELSE IF trader \in s.whitelist_trader THEN ""
    ELSE "Unauthorized"

\* the first guard of a list that fails, "" when all pass
FirstError(checks) ==
    LET bad == {i \in DOMAIN checks : checks[i] # ""}
    IN IF bad = {} THEN ""
       ELSE checks[CHOOSE i \in bad : \A j \in bad : i <= j]

----------------------------------------------------------------------------
(* handle.rs: the submessages, all reply_always *)

swap_input(vamm, side, position_id, open_notional, base_asset_limit, can_go_over_fluctuation, id) ==
    [id |-> id, kind |-> "swap_input", vamm |-> vamm,
     direction |-> side_to_direction(side), position_id |-> position_id,
     amount |-> open_notional, limit |-> base_asset_limit,
     can_go_over_fluctuation |-> can_go_over_fluctuation]

swap_output(vamm, side, position_id, open_notional, quote_asset_limit, id) ==
    [id |-> id, kind |-> "swap_output", vamm |-> vamm,
     direction |-> side_to_direction(side), position_id |-> position_id,
     amount |-> open_notional, limit |-> quote_asset_limit,
     can_go_over_fluctuation |-> FALSE]

settle_funding(vamm, id) ==
    [id |-> id, kind |-> "settle_funding", vamm |-> vamm,
     direction |-> "AddToAmm", position_id |-> 0,
     amount |-> 0, limit |-> 0, can_go_over_fluctuation |-> FALSE]

internal_open_position(vamm, side, position_id, open_notional, base_asset_limit) ==
    swap_input(vamm, side, position_id, open_notional, base_asset_limit, FALSE,
               INCREASE_POSITION_REPLY_ID)

\* the descriptor internal_close_position writes
CloseSwapInfo(position) ==
    [position_id |-> position.position_id, vamm |-> position.vamm,
     trader |-> position.trader, side |-> direction_to_side(position.direction),
     margin_amount |-> Abs(position.size), leverage |-> 0,
     open_notional |-> position.notional, position_notional |-> 0,
     unrealized_pnl |-> 0, margin_to_vault |-> 0,
     take_profit |-> position.take_profit, stop_loss |-> position.stop_loss,
     spread_fee |-> position.spread_fee, toll_fee |-> position.toll_fee]

InternalCloseNoDescriptor(s, position, quote_asset_limit, id) ==
    [store |-> s,
     msg |-> swap_output(position.vamm, direction_to_side(position.direction),
                         position.position_id, Abs(position.size),
                         quote_asset_limit, id)]

\* store_tmp_swap, then the swap_output of the whole size: [store, msg]
internal_close_position(s, position, quote_asset_limit, id) ==
    [store |-> store_tmp_swap(s, CloseSwapInfo(position)),
     msg |-> swap_output(position.vamm, direction_to_side(position.direction),
                         position.position_id, Abs(position.size),
                         quote_asset_limit, id)]

----------------------------------------------------------------------------
(* handle.rs: open_position *)

OpenTpSlError(side, take_profit, stop_loss, entry_price) ==
    IF side = "Buy"
    THEN IF take_profit # None /\ take_profit <= entry_price THEN "TP price is too low"
         ELSE IF stop_loss # None /\ stop_loss > entry_price THEN "SL price is too high"
         ELSE ""
    ELSE IF take_profit # None /\ take_profit >= entry_price THEN "TP price is too high"
         ELSE IF stop_loss # None /\ stop_loss < entry_price THEN "SL price is too low"
         ELSE ""

LeverageFloorErrorNever(leverage, decimals) == ""

LeverageFloorError(leverage, decimals) ==
    IF leverage < decimals THEN "Leverage must be greater than 1" ELSE ""

open_position(s, env, vamm, side, margin_amount, leverage, take_profit, stop_loss) ==
    LET trader == env.sender
        pre == FirstError(<<
                 require_is_not_over_price_diff_limit(env),
                 is_whitelisted(s, trader),
                 require_not_paused(Paused(s.state.pause)),
                 require_vamm(s, env),
                 require_not_restriction_mode(s, vamm, env.height, trader),
                 require_non_zero_input(margin_amount),
                 require_non_zero_input(leverage) >>)
        s1 == increase_last_position_id(s)
        position_id == s1.last_position_id
        margin_ratio == (s.config.decimals * s.config.decimals) \div leverage
        notional0 == (margin_amount * leverage) \div s.config.decimals
        toll_fee == query_calc_fee(env, notional0).toll_fee
        spread_fee == query_calc_fee(env, notional0).spread_fee
        new_margin_amount == margin_amount - spread_fee - toll_fee
        open_notional == (new_margin_amount * leverage) \div s.config.decimals
        entry_price == query_input_price(env, side_to_direction(side), open_notional)
        post == FirstError(<<
                 LeverageFloorError(leverage, s.config.decimals),
                 require_additional_margin(margin_ratio,
                     Max(s.config.initial_margin_ratio, env.vamm_initial_margin_ratio)),
                 IF new_margin_amount < 0 THEN "Overflow" ELSE "",
                 require_non_zero_input(new_margin_amount),
                 IF open_notional > s.trading_config.max_notional_size
                   THEN "max notional size exceeded" ELSE "",
                 IF leverage < s.trading_config.min_leverage
                   THEN "leverage is too low" ELSE "",
                 OpenTpSlError(side, take_profit, stop_loss, entry_price) >>)
        msg == internal_open_position(vamm, side, position_id, open_notional, 0)
        s2 == store_tmp_swap(s1,
                [position_id |-> position_id, vamm |-> vamm, trader |-> trader,
                 side |-> side, margin_amount |-> new_margin_amount,
                 leverage |-> leverage, open_notional |-> open_notional,
                 position_notional |-> 0, unrealized_pnl |-> 0,
                 margin_to_vault |-> 0, take_profit |-> take_profit,
                 stop_loss |-> stop_loss, spread_fee |-> spread_fee,
                 toll_fee |-> toll_fee])
        s3 == [s2 EXCEPT !.sent_funds = 0]
    IN IF pre # "" THEN Err(s, pre)
       ELSE IF post # "" THEN Err(s, post)
       ELSE Ok(s3, <<msg>>)

----------------------------------------------------------------------------
(* handle.rs: close_position, update_tp_sl *)

NotFound == "margined_perp::margined_engine::Position not found"
Unauthorized == "Unauthorized"

ReadPositionAfterPauseCheck(s, vamm, position_id) ==
    IF Paused(s.state.pause) THEN require_not_paused(Paused(s.state.pause))
    ELSE IF Has(s.positions, <<vamm, position_id>>) THEN "" ELSE NotFound

\* the error of loading a position that is not stored
read_position_error(s, vamm, position_id) ==
    IF Has(s.positions, <<vamm, position_id>>) THEN "" ELSE NotFound

close_position(s, env, vamm, position_id, quote_amount_limit) ==
    IF read_position_error(s, vamm, position_id) # ""
    THEN Err(s, read_position_error(s, vamm, position_id))
    ELSE
      LET position == s.positions[<<vamm, position_id>>]
          trader == env.sender
          pre == FirstError(<<
                   IF position.trader # trader THEN Unauthorized ELSE "",
                   require_is_not_over_price_diff_limit(env),
                   require_not_paused(Paused(s.state.pause)),
                   require_position_not_zero(Abs(position.size)),
                   require_not_restriction_mode(s, vamm, env.height, trader) >>)
          base_direction == IF position.size > 0 THEN "AddToAmm" ELSE "RemoveFromAmm"
          side == position_to_side(position.size)
          partial_close_amount ==
            (Abs(position.size) * s.config.partial_liquidation_ratio) \div s.config.decimals
          partial_close_notional ==
            query_output_amount(env, base_direction, partial_close_amount)
          pnl == get_position_notional_unrealized_pnl(s, env, position, "SpotPrice")
          partial_store ==
            store_tmp_swap(s,
              [position_id |-> position_id, vamm |-> position.vamm,
               trader |-> position.trader, side |-> side,
               margin_amount |-> Abs(position.size), leverage |-> s.config.decimals,
               open_notional |-> partial_close_notional,
               position_notional |-> pnl.position_notional,
               unrealized_pnl |-> pnl.unrealized_pnl, margin_to_vault |-> 0,
               take_profit |-> position.take_profit, stop_loss |-> position.stop_loss,
               spread_fee |-> position.spread_fee, toll_fee |-> position.toll_fee])
          partial_msg ==
            swap_input(position.vamm, side, position_id, partial_close_notional, 0,
                       TRUE, PARTIAL_CLOSE_POSITION_REPLY_ID)
          full == internal_close_position(s, position, quote_amount_limit,
                                          CLOSE_POSITION_REPLY_ID)
      IN IF pre # "" THEN Err(s, pre)
         \* the leverage attribute of the response divides by the stored margin
         ELSE IF position.margin = 0 THEN Err(s, DivByZero)
         ELSE IF env.over_fluctuation
                 /\ s.config.partial_liquidation_ratio < s.config.decimals
              THEN Ok(partial_store, <<partial_msg>>)
              ELSE Ok(full.store, <<full.msg>>)

UpdateTpSlErrorNever(position, take_profit, stop_loss) == ""

UpdateTpSlError(position, take_profit, stop_loss) ==
    IF position.side = "Buy"
    THEN IF take_profit # None /\ take_profit <= position.entry_price
           THEN "TP price is too low"
         ELSE IF stop_loss # None /\ stop_loss > position.entry_price
           THEN "SL price is too high"
         ELSE ""
    ELSE IF take_profit # None /\ take_profit >= position.entry_price
           THEN "TP price is too high"
         ELSE IF stop_loss # None /\ stop_loss < position.entry_price
           THEN "SL price is too low"
         ELSE ""

update_tp_sl(s, env, vamm, position_id, take_profit, stop_loss) ==
    IF ~Has(s.positions, <<vamm, position_id>>) THEN Err(s, NotFound)
    ELSE
      LET position == s.positions[<<vamm, position_id>>]
          pre == FirstError(<<
                   require_not_paused(Paused(s.state.pause)),
                   require_position_not_zero(Abs(position.size)),
                   IF position.trader # env.sender THEN Unauthorized ELSE "",
                   IF take_profit = None /\ stop_loss = None
                     THEN "Both take profit and stop loss are not set" ELSE "",
                   UpdateTpSlError(position, take_profit, stop_loss) >>)
          updated ==
            [position EXCEPT
               !.take_profit = IF take_profit # None THEN take_profit ELSE @,
               !.stop_loss = IF stop_loss # None THEN stop_loss ELSE @]
      IN IF pre # "" THEN Err(s, pre)
         ELSE Ok(store_position(s, vamm, updated, FALSE), <<>>)

----------------------------------------------------------------------------
(* utils.rs, handle.rs: the TP/SL triggers *)

MAX_LIMIT == 100
DEFAULT_LIMIT == 10

Min(a, b) == IF a < b THEN a ELSE b
AbsDiff(a, b) == Abs(a - b)

RECURSIVE SortAsc(_)
SortAsc(S) ==
    IF S = {} THEN <<>>
    ELSE LET m == CHOOSE x \in S : \A y \in S : x <= y
         IN <<m>> \o SortAsc(S \ {m})

Reverse(seq) == [i \in 1..Len(seq) |-> seq[Len(seq) + 1 - i]]
Take(seq, n) == SubSeq(seq, 1, Min(Len(seq), n))

calculate_tp_sl_spread(tp_sl_spread, take_profit, stop_loss, decimals) ==
    [tp_spread |-> (take_profit * tp_sl_spread) \div decimals,
     sl_spread |-> (stop_loss * tp_sl_spread) \div decimals]

CheckTpSlPriceUnguarded(close_price, take_profit, stop_loss, tp_spread, sl_spread, side) ==
    IF side = "Buy"
    THEN IF close_price > take_profit \/ AbsDiff(take_profit, close_price) <= tp_spread
           THEN "trigger_take_profit"
         ELSE IF stop_loss > close_price \/ AbsDiff(close_price, stop_loss) <= sl_spread
           THEN "trigger_stop_loss"
         ELSE ""
    ELSE IF take_profit > close_price \/ AbsDiff(close_price, take_profit) <= tp_spread
           THEN "trigger_take_profit"
         ELSE IF close_price > stop_loss \/ AbsDiff(stop_loss, close_price) <= sl_spread
           THEN "trigger_stop_loss"
         ELSE ""

check_tp_sl_price(close_price, take_profit, stop_loss, tp_spread, sl_spread, side) ==
    IF side = "Buy"
    THEN IF (take_profit > 0 /\ close_price > take_profit)
            \/ AbsDiff(take_profit, close_price) <= tp_spread
           THEN "trigger_take_profit"
         ELSE IF stop_loss > close_price
                 \/ (stop_loss > 0 /\ AbsDiff(close_price, stop_loss) <= sl_spread)
           THEN "trigger_stop_loss"
         ELSE ""
    ELSE IF take_profit > close_price
            \/ (take_profit > 0 /\ AbsDiff(close_price, take_profit) <= tp_spread)
           THEN "trigger_take_profit"
         ELSE IF (stop_loss > 0 /\ close_price > stop_loss)
                 \/ AbsDiff(stop_loss, close_price) <= sl_spread
           THEN "trigger_stop_loss"
         ELSE ""

UpdateReserveQuoteOnly(tmp_reserve, quote_asset_amount, base_asset_amount, position_direction) ==
    IF position_direction = "RemoveFromAmm"
    THEN [tmp_reserve EXCEPT !.quote_asset_reserve = @ + quote_asset_amount]
    ELSE [tmp_reserve EXCEPT !.quote_asset_reserve = @ - quote_asset_amount]

update_reserve(tmp_reserve, quote_asset_amount, base_asset_amount, position_direction) ==
    IF position_direction = "RemoveFromAmm"
    THEN [quote_asset_reserve |-> tmp_reserve.quote_asset_reserve + quote_asset_amount,
          base_asset_reserve |-> tmp_reserve.base_asset_reserve - base_asset_amount]
    ELSE [quote_asset_reserve |-> tmp_reserve.quote_asset_reserve - quote_asset_amount,
          base_asset_reserve |-> tmp_reserve.base_asset_reserve + base_asset_amount]

\* the quote for closing the position against the given reserves, and whether
\* the requested trigger (take profit or stop loss) fires at that price
TpSlFlag(s, position, tmp_reserve, do_tp) ==
    LET base_asset_amount == Abs(position.size)
        quote_asset_amount ==
          get_output_price_with_reserves(position.direction, base_asset_amount,
              tmp_reserve.quote_asset_reserve, tmp_reserve.base_asset_reserve)
        close_price == (quote_asset_amount * s.config.decimals) \div base_asset_amount
        stop_loss == Unwrap(position.stop_loss)
        take_profit == Unwrap(position.take_profit)
        spread == calculate_tp_sl_spread(s.config.tp_sl_spread, take_profit, stop_loss,
                                         s.config.decimals)
        tp_sl_action == check_tp_sl_price(close_price, take_profit, stop_loss,
                                          spread.tp_spread, spread.sl_spread, position.side)
    IN [quote_asset_amount |-> quote_asset_amount,
        flag |-> IF do_tp THEN tp_sl_action = "trigger_take_profit"
                 ELSE tp_sl_action = "trigger_stop_loss"]

trigger_tp_sl(s, env, vamm, position_id, do_tp) ==
    IF ~Has(s.positions, <<vamm, position_id>>) THEN Err(s, NotFound)
    ELSE
      LET position == s.positions[<<vamm, position_id>>]
          pre == FirstError(<<
                   IF ~env.vamm_open THEN "vAMM is not open" ELSE "",
                   require_not_paused(Paused(s.state.pause)),
                   require_position_not_zero(Abs(position.size)) >>)
          tmp_reserve == [quote_asset_reserve |-> env.quote_asset_reserve,
                          base_asset_reserve |-> env.base_asset_reserve]
          close == internal_close_position(s, position, 0, CLOSE_POSITION_REPLY_ID)
      IN IF pre # "" THEN Err(s, pre)
         ELSE IF TpSlFlag(s, position, tmp_reserve, do_tp).flag
              THEN Ok(close.store, <<close.msg>>)
              ELSE Ok(s, <<>>)

\* tick.rs: the entry prices of the side that hold positions, in the given order
query_ticks(s, vamm, side, limit, order_by) ==
    LET keys == {k \in DOMAIN s.tick : k[1] = vamm /\ k[2] = side}
        asc == SortAsc({k[3] : k \in keys})
    IN Take(IF order_by = "Descending" THEN Reverse(asc) ELSE asc, Min(limit, MAX_LIMIT))

\* query_positions with PositionFilter::Price: the by-price index, side filter,
\* ascending position id, default limit
positions_by_price(s, vamm, side, entry_price) ==
    LET keys == {k \in DOMAIN s.by_price :
                   k[1] = vamm /\ k[2] = entry_price /\ s.by_price[k] = side}
        ids == Take(SortAsc({k[3] : k \in keys}), Min(DEFAULT_LIMIT, MAX_LIMIT))
    IN [i \in 1..Len(ids) |-> s.positions[<<vamm, ids[i]>>]]

RECURSIVE Flatten(_)
Flatten(seqs) == IF seqs = <<>> THEN <<>> ELSE Head(seqs) \o Flatten(Tail(seqs))

\* the loop body of trigger_mutiple_tp_sl over the positions in visiting order;
\* acc = [store, msgs, tmp_reserve, err]
RECURSIVE TriggerLoop(_, _, _)
TriggerLoop(acc, positions, do_tp) ==
    IF positions = <<>> \/ acc.err # "" THEN acc
    ELSE
      LET position == Head(positions)
          zero == require_position_not_zero(Abs(position.size))
          t == TpSlFlag(acc.store, position, acc.tmp_reserve, do_tp)
          close == internal_close_position(acc.store, position, 0,
                                           CLOSE_POSITION_REPLY_ID)
      IN IF zero # "" THEN [acc EXCEPT !.err = zero]
         ELSE IF t.flag
              THEN TriggerLoop(
                     [store |-> close.store,
                      msgs |-> Append(acc.msgs, close.msg),
                      tmp_reserve |-> update_reserve(acc.tmp_reserve,
                                         t.quote_asset_amount, Abs(position.size),
                                         position.direction),
                      err |-> ""],
                     Tail(positions), do_tp)
              ELSE TriggerLoop(acc, Tail(positions), do_tp)

\* the two loops of trigger_mutiple_tp_sl over the ticks and their positions:
\* [store, msgs, tmp_reserve, err]
TriggerBatch(s, env, vamm, side, do_tp, limit) ==
    LET order_by == IF do_tp = (side = "Buy") THEN "Descending" ELSE "Ascending"
        ticks == query_ticks(s, vamm, side, limit, order_by)
        visited == Flatten([i \in 1..Len(ticks) |->
                              positions_by_price(s, vamm, side, ticks[i])])
    IN TriggerLoop(
         [store |-> s, msgs |-> <<>>,
          tmp_reserve |-> [quote_asset_reserve |-> env.quote_asset_reserve,
                           base_asset_reserve |-> env.base_asset_reserve],
          err |-> ""],
         visited, do_tp)

trigger_mutiple_tp_sl(s, env, vamm, side, do_tp, limit) ==
    LET pre == FirstError(<<
                 IF ~env.vamm_open THEN "vAMM is not open" ELSE "",
                 require_not_paused(Paused(s.state.pause)) >>)
        out == TriggerBatch(s, env, vamm, side, do_tp, limit)
    IN IF pre # "" THEN Err(s, pre)
       ELSE IF out.err # "" THEN Err(s, out.err)
       ELSE Ok(out.store, out.msgs)

\* query.rs: the loops of query_position_is_tpsl over the positions in
\* visiting order, every one quoted at the reserves the vAMM reports:
\* [err, is_tpsl]
RECURSIVE IsTpSlLoop(_, _, _, _)
IsTpSlLoop(s, positions, tmp_reserve, do_tp) ==
    IF positions = <<>> THEN [err |-> "", is_tpsl |-> FALSE]
    ELSE LET position == Head(positions) IN
         \* close_price divides by the size
         IF position.size = 0 THEN [err |-> DivByZero, is_tpsl |-> FALSE]
         ELSE IF TpSlFlag(s, position, tmp_reserve, do_tp).flag
              THEN [err |-> "", is_tpsl |-> TRUE]
              ELSE IsTpSlLoop(s, Tail(positions), tmp_reserve, do_tp)

QueryPositionIsTpSlFirstTick(s, env, vamm, side, do_tp, limit) ==
    LET order_by == IF do_tp = (side = "Buy") THEN "Descending" ELSE "Ascending"
        ticks == query_ticks(s, vamm, side, 1, order_by)
        visited == Flatten([i \in 1..Len(ticks) |->
                              positions_by_price(s, vamm, side, ticks[i])])
    IN IsTpSlLoop(s, visited,
                  [quote_asset_reserve |-> env.quote_asset_reserve,
                   base_asset_reserve |-> env.base_asset_reserve], do_tp)

query_position_is_tpsl(s, env, vamm, side, do_tp, limit) ==
    LET order_by == IF do_tp = (side = "Buy") THEN "Descending" ELSE "Ascending"
        ticks == query_ticks(s, vamm, side, limit, order_by)
        visited == Flatten([i \in 1..Len(ticks) |->
                              positions_by_price(s, vamm, side, ticks[i])])
    IN IsTpSlLoop(s, visited,
                  [quote_asset_reserve |-> env.quote_asset_reserve,
                   base_asset_reserve |-> env.base_asset_reserve], do_tp)

----------------------------------------------------------------------------
(* handle.rs: liquidate, pay_funding, deposit_margin, withdraw_margin *)

PartialLiquidationAlwaysOutput(s, env, vamm, position, quote_asset_limit, decimals, partial_liquidation_ratio) ==
    LET partial_position_size ==
          (Abs(position.size) * partial_liquidation_ratio) \div decimals
        partial_asset_limit == (quote_asset_limit * partial_liquidation_ratio) \div decimals
        current_notional ==
          query_output_amount(env, position.direction, partial_position_size)
        pnl == get_position_notional_unrealized_pnl(s, env, position, "SpotPrice")
        s1 == store_tmp_swap(s,
                [position_id |-> position.position_id, vamm |-> position.vamm,
                 trader |-> position.trader, side |-> position_to_side(position.size),
                 margin_amount |-> partial_position_size, leverage |-> 0,
                 open_notional |-> current_notional, position_notional |-> 0,
                 unrealized_pnl |-> pnl.unrealized_pnl, margin_to_vault |-> 0,
                 take_profit |-> position.take_profit, stop_loss |-> position.stop_loss,
                 spread_fee |-> position.spread_fee, toll_fee |-> position.toll_fee])
    IN [store |-> s1,
        msg |-> swap_output(vamm, direction_to_side(position.direction),
                            position.position_id, partial_position_size,
                            partial_asset_limit, PARTIAL_LIQUIDATION_REPLY_ID)]

partial_liquidation(s, env, vamm, position, quote_asset_limit, decimals, partial_liquidation_ratio) ==
    LET partial_position_size ==
          (Abs(position.size) * partial_liquidation_ratio) \div decimals
        partial_asset_limit == (quote_asset_limit * partial_liquidation_ratio) \div decimals
        current_notional ==
          query_output_amount(env, position.direction, partial_position_size)
        pnl == get_position_notional_unrealized_pnl(s, env, position, "SpotPrice")
        side == position_to_side(position.size)
        s1 == store_tmp_swap(s,
                [position_id |-> position.position_id, vamm |-> position.vamm,
                 trader |-> position.trader, side |-> side,
                 margin_amount |-> partial_position_size, leverage |-> 0,
                 open_notional |-> current_notional, position_notional |-> 0,
                 unrealized_pnl |-> pnl.unrealized_pnl, margin_to_vault |-> 0,
                 take_profit |-> position.take_profit, stop_loss |-> position.stop_loss,
                 spread_fee |-> position.spread_fee, toll_fee |-> position.toll_fee])
    IN [store |-> s1,
        msg |-> IF current_notional > position.notional
                THEN swap_input(vamm, direction_to_side(position.direction),
                                position.position_id, position.notional, 0, TRUE,
                                PARTIAL_LIQUIDATION_REPLY_ID)
                ELSE swap_output(vamm, direction_to_side(position.direction),
                                 position.position_id, partial_position_size,
                                 partial_asset_limit, PARTIAL_LIQUIDATION_REPLY_ID)]

LiquidateWhitelistErrorNever(s, env, position) == ""

\* liquidate: a whitelisted trader's position is liquidated by the trader only
LiquidateWhitelistError(s, env, position) ==
    IF position.trader \in s.whitelist /\ env.sender # position.trader
    THEN "trader is whitelisted" ELSE ""

\* liquidate takes the partial path on the magnitude of the margin ratio
LiquidateTakesPartial(s, margin_ratio) ==
    Abs(margin_ratio) > s.config.liquidation_fee
    /\ s.config.partial_liquidation_ratio # 0

liquidate(s, env, vamm, position_id, quote_asset_limit) ==
    IF Paused(s.state.pause) THEN Err(s, require_not_paused(Paused(s.state.pause)))
    ELSE IF ~Has(s.positions, <<vamm, position_id>>) THEN Err(s, NotFound)
    ELSE
      LET position == s.positions[<<vamm, position_id>>]
          s1 == [s EXCEPT !.tmp_liquidator = env.sender]
          margin_ratio == query_margin_ratio(s1, env, position)
          post == FirstError(<<
                    require_vamm(s1, env),
                    require_insufficient_margin(margin_ratio,
                                                s1.config.maintenance_margin_ratio),
                    require_position_not_zero(Abs(position.size)) >>)
          partial == partial_liquidation(s1, env, vamm, position, quote_asset_limit,
                         s1.config.decimals, s1.config.partial_liquidation_ratio)
          full == internal_close_position(s1, position, quote_asset_limit,
                                          LIQUIDATION_REPLY_ID)
      IN IF LiquidateWhitelistError(s, env, position) # ""
           THEN Err(s, LiquidateWhitelistError(s, env, position))
         ELSE IF MarginRatioAborts(s1, env, position) THEN Err(s, DivByZero)
         ELSE IF post # "" THEN Err(s, post)
         ELSE IF LiquidateTakesPartial(s1, margin_ratio)
              THEN Ok(partial.store, <<partial.msg>>)
              ELSE Ok(full.store, <<full.msg>>)

pay_funding(s, env, vamm) ==
    IF require_vamm(s, env) # "" THEN Err(s, require_vamm(s, env))
    ELSE Ok(s, <<settle_funding(vamm, PAY_FUNDING_REPLY_ID)>>)

DepositMarginByAnyone(s, env, vamm, position_id, amount) ==
    LET pre == FirstError(<<
                 require_not_paused(Paused(s.state.pause)),
                 require_non_zero_input(amount),
                 IF ~Has(s.positions, <<vamm, position_id>>) THEN NotFound ELSE "" >>)
        position == s.positions[<<vamm, position_id>>]
    IN IF pre # "" THEN Err(s, pre)
       ELSE Ok(store_position(s, vamm,
                  [position EXCEPT !.margin = position.margin + amount], FALSE), <<>>)

deposit_margin(s, env, vamm, position_id, amount) ==
    LET pre == FirstError(<<
                 require_not_paused(Paused(s.state.pause)),
                 require_non_zero_input(amount),
                 IF ~Has(s.positions, <<vamm, position_id>>) THEN NotFound ELSE "" >>)
        position == s.positions[<<vamm, position_id>>]
    IN IF pre # "" THEN Err(s, pre)
       ELSE IF position.trader # env.sender THEN Err(s, Unauthorized)
       ELSE Ok(store_position(s, vamm,
                  [position EXCEPT !.margin = position.margin + amount], FALSE), <<>>)

withdraw_margin(s, env, vamm, position_id, amount) ==
    LET pre == FirstError(<<
                 require_vamm(s, env),
                 require_not_paused(Paused(s.state.pause)),
                 require_non_zero_input(amount),
                 IF ~Has(s.positions, <<vamm, position_id>>) THEN NotFound ELSE "" >>)
        position == s.positions[<<vamm, position_id>>]
        remain_margin == calc_remain_margin_with_funding_payment(s, position, 0 - amount)
        updated == [position EXCEPT
                      !.margin = remain_margin.margin,
                      !.last_updated_premium_fraction =
                          remain_margin.latest_premium_fraction]
        \* read from storage: the position as stored, not the local copy
        free_collateral == query_free_collateral(s, env, vamm, position_id)
    IN IF pre # "" THEN Err(s, pre)
       ELSE IF position.trader # env.sender THEN Err(s, Unauthorized)
       ELSE IF require_bad_debt(remain_margin.bad_debt) # ""
         THEN Err(s, require_bad_debt(remain_margin.bad_debt))
       ELSE IF free_collateral - amount < 0 THEN Err(s, "Insufficient collateral")
       ELSE Ok(store_position(s, vamm, updated, FALSE), <<>>)

----------------------------------------------------------------------------
(* handle.rs, utils.rs: administration *)

\* validate.rs
validate_ratio(value, decimals) ==
    IF value > decimals THEN "Invalid ratio" ELSE ""

validate_margin_ratios(initial_margin, maintenance_margin) ==
    IF maintenance_margin > initial_margin
    THEN "Incorrect initialisation of margin ratios, initial >= maintenance"
    ELSE ""

\* contract.rs: the store instantiate writes for the ratios of the message
instantiate(initial_margin_ratio, maintenance_margin_ratio, liquidation_fee, tp_sl_spread) ==
    LET pre == FirstError(<<
                 validate_ratio(initial_margin_ratio, Decimals),
                 validate_ratio(maintenance_margin_ratio, Decimals),
                 validate_ratio(liquidation_fee, Decimals),
                 validate_ratio(tp_sl_spread, Decimals),
                 validate_margin_ratios(initial_margin_ratio, maintenance_margin_ratio) >>)
    IN IF pre # "" THEN Err(InitStore, pre)
       ELSE Ok([InitStore EXCEPT
                  !.config.initial_margin_ratio = initial_margin_ratio,
                  !.config.maintenance_margin_ratio = maintenance_margin_ratio,
                  !.config.partial_liquidation_ratio = 0,
                  !.config.tp_sl_spread = tp_sl_spread,
                  !.config.liquidation_fee = liquidation_fee], <<>>)

UpdateConfigStaleInitial(s, env, initial_margin_ratio, maintenance_margin_ratio, partial_liquidation_ratio, tp_sl_spread, liquidation_fee) ==
    LET config == s.config
        pre == FirstError(<<
                 IF env.sender # config.owner THEN "unauthorized" ELSE "",
                 IF initial_margin_ratio = None THEN ""
                 ELSE FirstError(<<
                        validate_ratio(initial_margin_ratio, config.decimals),
                        validate_margin_ratios(initial_margin_ratio,
                                               config.maintenance_margin_ratio) >>),
                 IF maintenance_margin_ratio = None THEN ""
                 ELSE FirstError(<<
                        validate_ratio(maintenance_margin_ratio, config.decimals),
                        validate_margin_ratios(config.initial_margin_ratio,
                                               maintenance_margin_ratio) >>),
                 IF partial_liquidation_ratio = None THEN ""
                 ELSE validate_ratio(partial_liquidation_ratio, config.decimals),
                 IF tp_sl_spread = None THEN ""
                 ELSE validate_ratio(tp_sl_spread, config.decimals),
                 IF liquidation_fee = None THEN ""
                 ELSE validate_ratio(liquidation_fee, config.decimals) >>)
        Updated(new, old) == IF new = None THEN old ELSE new
    IN IF pre # "" THEN Err(s, pre)
       ELSE Ok([s EXCEPT
                  !.config.initial_margin_ratio = Updated(initial_margin_ratio, @),
                  !.config.maintenance_margin_ratio = Updated(maintenance_margin_ratio, @),
                  !.config.partial_liquidation_ratio = Updated(partial_liquidation_ratio, @),
                  !.config.tp_sl_spread = Updated(tp_sl_spread, @),
                  !.config.liquidation_fee = Updated(liquidation_fee, @)], <<>>)

\* the ratios of update_config, None for one that is not given; each is
\* validated against the configuration as the ratios before it have left it
update_config(s, env, initial_margin_ratio, maintenance_margin_ratio, partial_liquidation_ratio, tp_sl_spread, liquidation_fee) ==
    LET config == s.config
        Updated(new, old) == IF new = None THEN old ELSE new
        initial == Updated(initial_margin_ratio, config.initial_margin_ratio)
        pre == FirstError(<<
                 IF env.sender # config.owner THEN "unauthorized" ELSE "",
                 IF initial_margin_ratio = None THEN ""
                 ELSE FirstError(<<
                        validate_ratio(initial_margin_ratio, config.decimals),
                        validate_margin_ratios(initial_margin_ratio,
                                               config.maintenance_margin_ratio) >>),
                 IF maintenance_margin_ratio = None THEN ""
                 ELSE FirstError(<<
                        validate_ratio(maintenance_margin_ratio, config.decimals),
                        validate_margin_ratios(initial, maintenance_margin_ratio) >>),
                 IF partial_liquidation_ratio = None THEN ""
                 ELSE validate_ratio(partial_liquidation_ratio, config.decimals),
                 IF tp_sl_spread = None THEN ""
                 ELSE validate_ratio(tp_sl_spread, config.decimals),
                 IF liquidation_fee = None THEN ""
                 ELSE validate_ratio(liquidation_fee, config.decimals) >>)
    IN IF pre # "" THEN Err(s, pre)
       ELSE Ok([s EXCEPT
                  !.config.initial_margin_ratio = initial,
                  !.config.maintenance_margin_ratio = Updated(maintenance_margin_ratio, @),
                  !.config.partial_liquidation_ratio = Updated(partial_liquidation_ratio, @),
                  !.config.tp_sl_spread = Updated(tp_sl_spread, @),
                  !.config.liquidation_fee = Updated(liquidation_fee, @)], <<>>)

set_relayer(s, env, relayers) ==
    IF s.config.owner # env.sender THEN Err(s, Unauthorized)
    ELSE Ok([s EXCEPT !.relayer = @ \cup relayers], <<>>)

remove_relayer(s, env, relayers) ==
    IF s.config.owner # env.sender THEN Err(s, Unauthorized)
    ELSE Ok([s EXCEPT !.relayer = @ \ relayers], <<>>)

WhitelistTraderByAnyone(s, env, traders) ==
    Ok([s EXCEPT !.whitelist_trader = @ \cup traders], <<>>)

whitelist_trader(s, env, traders) ==
    IF env.sender \notin s.relayer THEN Err(s, Unauthorized)
    ELSE Ok([s EXCEPT !.whitelist_trader = @ \cup traders], <<>>)

remove_whitelist_trader(s, env, traders) ==
    IF env.sender \notin s.relayer THEN Err(s, Unauthorized)
    ELSE Ok([s EXCEPT !.whitelist_trader = @ \ traders], <<>>)

SetPauseRepeatable(s, env, pause) ==
    IF env.sender # s.pauser THEN Err(s, "unauthorized")
    ELSE Ok([s EXCEPT !.state.pause = pause], <<>>)

set_pause(s, env, pause) ==
    IF env.sender # s.pauser \/ s.state.pause = pause THEN Err(s, "unauthorized")
    ELSE Ok([s EXCEPT !.state.pause = pause], <<>>)

add_whitelist(s, env, address) ==
    IF env.sender # s.pauser THEN Err(s, "Caller is not admin")
    ELSE IF address \in s.whitelist THEN Err(s, "Given address already registered as a hook")
    ELSE Ok([s EXCEPT !.whitelist = @ \cup {address}], <<>>)

remove_whitelist(s, env, address) ==
    IF env.sender # s.pauser THEN Err(s, "Caller is not admin")
    ELSE IF address \notin s.whitelist THEN Err(s, "Given address not registered as a hook")
    ELSE Ok([s EXCEPT !.whitelist = @ \ {address}], <<>>)

----------------------------------------------------------------------------
(* utils.rs: open interest; reply.rs: the finalize steps *)

UpdateOpenInterestCapsEveryone(s, env, amount, trader) ==
    LET sum == amount + s.state.open_interest_notional
        updated_open_interest == IF sum < 0 THEN 0 ELSE sum
        cap == env.open_interest_notional_cap
    IN IF cap # 0 /\ amount > 0 /\ updated_open_interest > cap
       THEN [err |-> "open interest exceeds cap", store |-> s]
       ELSE [err |-> "",
             store |-> [s EXCEPT !.state.open_interest_notional = updated_open_interest]]

\* [err, store]
update_open_interest_notional(s, env, amount, trader) ==
    LET sum == amount + s.state.open_interest_notional
        updated_open_interest == IF sum < 0 THEN 0 ELSE sum
        cap == env.open_interest_notional_cap
    IN IF cap # 0 /\ amount > 0 /\ updated_open_interest > cap
          /\ trader \notin s.whitelist
       THEN [err |-> "open interest exceeds cap", store |-> s]
       ELSE [err |-> "",
             store |-> [s EXCEPT !.state.open_interest_notional = updated_open_interest]]

NoDescriptor == "no temporary position"

open_position_reply(s, env, input, output, position_id) ==
    IF ~Has(s.tmp_swap, position_id) THEN Err(s, NoDescriptor)
    ELSE IF output = 0 THEN Err(s, DivByZero)
    ELSE
      LET swap == s.tmp_swap[position_id]
          oi == update_open_interest_notional(s, env, input, swap.trader)
          position ==
            [position_id |-> position_id, vamm |-> swap.vamm, trader |-> swap.trader,
             side |-> swap.side, direction |-> side_to_direction(swap.side),
             size |-> IF swap.side = "Buy" THEN output ELSE 0 - output,
             margin |-> swap.margin_amount, notional |-> input,
             entry_price |-> (input * s.config.decimals) \div output,
             take_profit |-> swap.take_profit, stop_loss |-> swap.stop_loss,
             last_updated_premium_fraction |->
                 query_cumulative_premium_fraction(s, swap.vamm),
             spread_fee |-> swap.spread_fee, toll_fee |-> swap.toll_fee]
          s1 == store_position(oi.store, swap.vamm, position, TRUE)
          s2 == [remove_tmp_swap(s1, position_id) EXCEPT !.sent_funds = None]
      IN IF oi.err # "" THEN Err(s, oi.err)
         ELSE Ok(enter_restriction_mode(s2, swap.vamm, env.height), <<>>)

\* a full close: the record stays in the store with size zero
ClosedPosition(s, position) ==
    [position EXCEPT
       !.size = 0, !.margin = 0, !.notional = 0,
       !.last_updated_premium_fraction =
           query_cumulative_premium_fraction(s, position.vamm)]

close_position_reply(s, env, input, output, position_id) ==
    IF ~Has(s.tmp_swap, position_id) THEN Err(s, NoDescriptor)
    ELSE
      LET swap == s.tmp_swap[position_id]
          position == s.positions[<<swap.vamm, position_id>>]
          oi == update_open_interest_notional(s, env, 0 - position.notional, swap.trader)
          s1 == store_position(oi.store, swap.vamm, ClosedPosition(s, position), FALSE)
          s2 == remove_tmp_swap(s1, position_id)
      IN IF ~Has(s.positions, <<swap.vamm, position_id>>) THEN Err(s, NotFound)
         ELSE Ok(enter_restriction_mode(s2, swap.vamm, env.height), <<>>)

liquidate_reply(s, env, input, output, position_id) ==
    LET r == close_position_reply(s, env, input, output, position_id)
    IN IF ~r.ok THEN r
       ELSE Ok([r.store EXCEPT !.tmp_liquidator = NoAddr], <<>>)

\* a partial step: the position shrinks by the base amount and its notional in
\* proportion; the margin stays with the position until it is closed
ReducedPosition(s, position, base_amount) ==
    LET left == Max(Abs(position.size) - base_amount, 0)
    IN [position EXCEPT
          !.size = IF position.size < 0 THEN 0 - left ELSE left,
          !.notional = IF position.size = 0 THEN 0
                       ELSE (position.notional * left) \div Abs(position.size),
          !.margin = IF left = 0 THEN 0 ELSE position.margin]

partial_close_position_reply(s, env, input, output, position_id) ==
    IF ~Has(s.tmp_swap, position_id) THEN Err(s, NoDescriptor)
    ELSE
      LET swap == s.tmp_swap[position_id]
          position == s.positions[<<swap.vamm, position_id>>]
          reduced == ReducedPosition(s, position, output)
          oi == update_open_interest_notional(s, env,
                    reduced.notional - position.notional, swap.trader)
          s1 == store_position(oi.store, swap.vamm, reduced, FALSE)
          s2 == remove_tmp_swap(s1, position_id)
      IN IF ~Has(s.positions, <<swap.vamm, position_id>>) THEN Err(s, NotFound)
         ELSE Ok(enter_restriction_mode(s2, swap.vamm, env.height), <<>>)

partial_liquidation_reply(s, env, input, output, position_id) ==
    IF ~Has(s.tmp_swap, position_id) THEN Err(s, NoDescriptor)
    ELSE
      LET swap == s.tmp_swap[position_id]
          position == s.positions[<<swap.vamm, position_id>>]
          reduced == ReducedPosition(s, position, swap.margin_amount)
          oi == update_open_interest_notional(s, env,
                    reduced.notional - position.notional, swap.trader)
          s1 == store_position(oi.store, swap.vamm, reduced, FALSE)
          s2 == [remove_tmp_swap(s1, position_id) EXCEPT !.tmp_liquidator = NoAddr]
      IN IF ~Has(s.positions, <<swap.vamm, position_id>>) THEN Err(s, NotFound)
         ELSE Ok(enter_restriction_mode(s2, swap.vamm, env.height), <<>>)

pay_funding_reply(s, env, premium_fraction, sender) ==
    Ok(append_cumulative_premium_fraction(s, sender, premium_fraction), <<>>)

----------------------------------------------------------------------------
(* contract.rs, utils.rs: the vAMM's response and the reply entry point *)

\* what the vAMM emits for a submessage it executed against the given pool
VammResponse(msg, rsv, premium_fraction) ==
    CASE msg.kind = "swap_input" ->
           [type |-> "input", position_id |-> msg.position_id,
            quote_asset_amount |-> msg.amount,
            base_asset_amount |->
              get_input_price_with_reserves(msg.direction, msg.amount,
                  rsv.quote_asset_reserve, rsv.base_asset_reserve),
            premium_fraction |-> 0, contract_address |-> msg.vamm]
      [] msg.kind = "swap_output" ->
           [type |-> "output", position_id |-> msg.position_id,
            base_asset_amount |-> msg.amount,
            quote_asset_amount |->
              get_output_price_with_reserves(msg.direction, msg.amount,
                  rsv.quote_asset_reserve, rsv.base_asset_reserve),
            premium_fraction |-> 0, contract_address |-> msg.vamm]
      [] OTHER ->
           [type |-> "funding", position_id |-> 0,
            base_asset_amount |-> 0, quote_asset_amount |-> 0,
            premium_fraction |-> premium_fraction, contract_address |-> msg.vamm]

\* (input, output, position_id)
parse_swap(response) ==
    IF response.type = "input"
    THEN [err |-> "", input |-> response.quote_asset_amount,
          output |-> response.base_asset_amount, position_id |-> response.position_id]
    ELSE IF response.type = "output"
    THEN [err |-> "", input |-> response.base_asset_amount,
          output |-> response.quote_asset_amount, position_id |-> response.position_id]
    ELSE [err |-> "Cannot parse swap", input |-> 0, output |-> 0, position_id |-> 0]

parse_pay_funding(response) ==
    [premium_fraction |-> response.premium_fraction, sender |-> response.contract_address]

ReplyErrorSwallowed(id) ==
    CASE id = TRANSFER_FAILURE_REPLY_ID -> "transfer failure - reply (id 9)"
      [] id = INCREASE_POSITION_REPLY_ID -> "open position failure - reply (id 1)"
      [] id = CLOSE_POSITION_REPLY_ID -> ""
      [] id = PARTIAL_CLOSE_POSITION_REPLY_ID ->
           "partial close position failure - reply (id 3)"
      [] id = LIQUIDATION_REPLY_ID -> "liquidation failure - reply (id 4)"
      [] id = PARTIAL_LIQUIDATION_REPLY_ID -> "partial liquidation failure - reply (id 5)"
      [] id = PAY_FUNDING_REPLY_ID -> "funding payment failure - reply (id 6)"
      [] OTHER -> "reply error"

\* the SubMsgResult::Err arm of reply: the error text for the identifier;
\* "" would mean the error is swallowed and the reply returns Ok
ReplyError(id) ==
    CASE id = TRANSFER_FAILURE_REPLY_ID -> "transfer failure - reply (id 9)"
      [] id = INCREASE_POSITION_REPLY_ID -> "open position failure - reply (id 1)"
      [] id = CLOSE_POSITION_REPLY_ID -> "close position failure - reply (id 2)"
      [] id = PARTIAL_CLOSE_POSITION_REPLY_ID ->
           "partial close position failure - reply (id 3)"
      [] id = LIQUIDATION_REPLY_ID -> "liquidation failure - reply (id 4)"
      [] id = PARTIAL_LIQUIDATION_REPLY_ID -> "partial liquidation failure - reply (id 5)"
      [] id = PAY_FUNDING_REPLY_ID -> "funding payment failure - reply (id 6)"
      [] OTHER -> "reply error"

\* msg = [id, is_ok, response]
reply(s, env, msg) ==
    IF msg.is_ok
    THEN LET sw == parse_swap(msg.response)
             pf == parse_pay_funding(msg.response)
         IN IF msg.id = PAY_FUNDING_REPLY_ID
              THEN pay_funding_reply(s, env, pf.premium_fraction, pf.sender)
            ELSE IF msg.id \notin ReplyIds THEN Err(s, "reply invalid")
            ELSE IF sw.err # "" THEN Err(s, sw.err)
            ELSE CASE msg.id = INCREASE_POSITION_REPLY_ID ->
                        open_position_reply(s, env, sw.input, sw.output, sw.position_id)
                   [] msg.id = CLOSE_POSITION_REPLY_ID ->
                        close_position_reply(s, env, sw.input, sw.output, sw.position_id)
                   [] msg.id = PARTIAL_CLOSE_POSITION_REPLY_ID ->
                        partial_close_position_reply(s, env, sw.input, sw.output,
                                                     sw.position_id)
                   [] msg.id = LIQUIDATION_REPLY_ID ->
                        liquidate_reply(s, env, sw.input, sw.output, sw.position_id)
                   [] OTHER ->
                        partial_liquidation_reply(s, env, sw.input, sw.output,
                                                  sw.position_id)
    ELSE IF ReplyError(msg.id) = "" THEN Ok(s, <<>>)
    ELSE Err(s, ReplyError(msg.id))

----------------------------------------------------------------------------
(* The host: a request runs its handler; an Err discards the writes; an Ok  *)
(* keeps them and the submessages are executed one after the other inside   *)
(* the same transaction, each followed by reply; an Err of reply aborts the *)
(* whole transaction.                                                        *)

Idle == queue = <<>>

Submit(r) ==
    /\ Idle
    /\ IF ~r.ok
       THEN /\ result' = r.err
            /\ UNCHANGED <<store, committed, queue>>
       ELSE IF r.msgs = <<>>
       THEN /\ store' = r.store
            /\ committed' = r.store
            /\ result' = "ok"
            /\ UNCHANGED queue
       ELSE /\ store' = r.store
            /\ queue' = r.msgs
            /\ result' = ""
            /\ UNCHANGED committed
    /\ UNCHANGED <<height, reserve, calc>>

\* the position ids a request may name: those issued so far (1 when none is)
PositionIds == 1..Max(store.last_position_id, 1)

OpenPositionUpTo(max_id, take_profits) ==
    \E trader \in Openers, side \in Sides, m \in MarginSet, l \in LeverageSet,
       tp \in take_profits :
        /\ store.last_position_id < max_id
        /\ Submit(open_position(store, Env(height, reserve, trader), "vamm",
                                side, m, l, tp, None))

OpenPositionAny ==
    \E trader \in Openers, side \in Sides, m \in OpenMarginSet, l \in OpenLeverageSet,
       tp \in OpenTpSlSet, sl \in OpenTpSlSet :
        /\ store.last_position_id < MaxPositionId
        /\ Submit(open_position(store, Env(height, reserve, trader), "vamm",
                                side, m, l, tp, sl))

OpenPosition == OpenPositionUpTo(MaxPositionId, {None})

OpenPositionBatch == OpenPositionUpTo(MaxBatchPositionId, TpSlSet)

OpenPositionTpSl == OpenPositionUpTo(MaxPositionId, TpSlSet)

ClosePosition ==
    \E trader \in Traders, id \in PositionIds, over \in BOOLEAN :
        Submit(close_position(store,
                   [Env(height, reserve, trader) EXCEPT !.over_fluctuation = over],
                   "vamm", id, 0))

UpdateTpSl ==
    \E trader \in Traders, id \in PositionIds, tp \in TpSlSet :
        Submit(update_tp_sl(store, Env(height, reserve, trader), "vamm", id, tp, None))

UpdateTpSlAny ==
    \E trader \in Traders, id \in PositionIds, tp \in OpenTpSlSet, sl \in OpenTpSlSet :
        Submit(update_tp_sl(store, Env(height, reserve, trader), "vamm", id, tp, sl))

TriggerTpSl ==
    \E sender \in Traders, id \in PositionIds, do_tp \in BOOLEAN :
        Submit(trigger_tp_sl(store, Env(height, reserve, sender), "vamm", id, do_tp))

TriggerMultipleTpSl ==
    \E sender \in Traders, side \in Sides, do_tp \in BOOLEAN, limit \in LimitSet :
        Submit(trigger_mutiple_tp_sl(store, Env(height, reserve, sender), "vamm",
                                     side, do_tp, limit))

Liquidate ==
    \E sender \in Traders, id \in PositionIds :
        Submit(liquidate(store, Env(height, reserve, sender), "vamm", id, 0))

PayFundingUpTo(max_rounds) ==
    /\ Len(store.vamm_map["vamm"].cumulative_premium_fractions) < max_rounds
    /\ \E sender \in Traders :
        Submit(pay_funding(store, Env(height, reserve, sender), "vamm"))

PayFunding == PayFundingUpTo(MaxFunding)

\* several funding rounds in a row
PayFundingRounds == PayFundingUpTo(MaxFundingRounds)

DepositMarginUpTo(max_margin) ==
    \E trader \in Traders, id \in PositionIds, amount \in AmountSet :
        /\ Has(store.positions, <<"vamm", id>>)
              => store.positions[<<"vamm", id>>].margin + amount <= max_margin
        /\ Submit(deposit_margin(store, Env(height, reserve, trader), "vamm", id, amount))

DepositMargin == DepositMarginUpTo(MaxMargin)

\* deposits on top of the opening margin
DepositMarginOnTop == DepositMarginUpTo(MaxDepositedMargin)

WithdrawMargin ==
    \E trader \in Traders, id \in PositionIds, amount \in AmountSet :
        /\ Has(store.positions, <<"vamm", id>>)
              => store.positions[<<"vamm", id>>].margin - amount >= MinMargin
                 \/ store.positions[<<"vamm", id>>].size = 0
        /\ Submit(withdraw_margin(store, Env(height, reserve, trader), "vamm", id, amount))

UpdateConfig ==
    \E sender \in {Owner}, ratio \in PartialRatioSet :
        Submit(update_config(store, Env(height, reserve, sender),
                             None, None, ratio, None, None))

\* the addresses that are made relayers
RelayerSet == {"bob", Owner}

SetRelayer ==
    \E sender \in Addrs, relayers \in SUBSET RelayerSet :
        Submit(set_relayer(store, Env(height, reserve, sender), relayers))

RemoveRelayer ==
    \E sender \in Addrs, relayers \in SUBSET RelayerSet :
        Submit(remove_relayer(store, Env(height, reserve, sender), relayers))

WhitelistTrader ==
    \E sender \in Addrs, traders \in SUBSET Traders :
        Submit(whitelist_trader(store, Env(height, reserve, sender), traders))

RemoveWhitelistTrader ==
    \E sender \in Addrs, traders \in SUBSET Traders :
        Submit(remove_whitelist_trader(store, Env(height, reserve, sender), traders))

SetPause ==
    \E sender \in Addrs, pause \in PauseTypes :
        Submit(set_pause(store, Env(height, reserve, sender), pause))

AddWhitelist ==
    \E sender \in {Owner}, address \in WhitelistSet :
        Submit(add_whitelist(store, Env(height, reserve, sender), address))

RemoveWhitelist ==
    \E sender \in {Owner}, address \in WhitelistSet :
        Submit(remove_whitelist(store, Env(height, reserve, sender), address))

\* the vAMM executes the oldest submessage (is_ok) or fails to, and reply runs
DeliverWith(is_ok, premium) ==
    /\ ~Idle
    /\ LET msg == Head(queue)
           r == reply(store, Env(height, reserve, msg.vamm),
                      [id |-> msg.id, is_ok |-> is_ok,
                       response |-> VammResponse(msg, reserve, premium)])
       IN IF r.ok
          THEN /\ store' = r.store
               /\ queue' = Tail(queue)
               /\ committed' = IF Tail(queue) = <<>> THEN r.store ELSE committed
               /\ result' = IF Tail(queue) = <<>> THEN "ok" ELSE ""
          ELSE /\ store' = committed
               /\ queue' = <<>>
               /\ result' = r.err
               /\ UNCHANGED committed
    /\ UNCHANGED <<height, reserve, calc>>

Deliver == \E is_ok \in BOOLEAN, premium \in PremiumSet : DeliverWith(is_ok, premium)

\* the vAMM settles funding with a premium of either sign
DeliverFunding ==
    \E is_ok \in BOOLEAN, premium \in FundingPremiumSet : DeliverWith(is_ok, premium)

\* other parties trade on the vAMM between the engine's transactions
VammMove ==
    /\ Idle
    /\ \E rsv \in ReserveSet : rsv # reserve /\ reserve' = rsv
    /\ UNCHANGED <<store, committed, queue, height, result, calc>>

NextBlock ==
    /\ Idle
    /\ height < MaxHeight
    /\ height' = height + 1
    /\ UNCHANGED <<store, committed, queue, reserve, result, calc>>

NoCalc == [used |-> FALSE]

Init ==
    /\ store = InitStore
    /\ committed = InitStore
    /\ queue = <<>>
    /\ height = 1
    /\ reserve \in ReserveSet
    /\ result = ""
    /\ calc = NoCalc

\* one position through its life: open, close, liquidation, funding, each with
\* its continuation, and the partial-liquidation ratio being configured
Next ==
    \/ OpenPosition
    \/ ClosePosition
    \/ Liquidate
    \/ PayFunding
    \/ UpdateConfig
    \/ Deliver
    \/ VammMove
    \/ NextBlock

Spec == Init /\ [][Next]_vars

\* two positions side by side: opens, closes, triggers (single and batch) and
\* liquidations under the initial configuration
NextBatch ==
    \/ OpenPositionBatch
    \/ ClosePosition
    \/ UpdateTpSl
    \/ TriggerTpSl
    \/ TriggerMultipleTpSl
    \/ Liquidate
    \/ Deliver
    \/ VammMove
    \/ NextBlock

SpecBatch == Init /\ [][NextBatch]_vars

\* one position with the trader's margin moves and the whitelist
NextAccess ==
    \/ OpenPosition
    \/ ClosePosition
    \/ Liquidate
    \/ DepositMargin
    \/ WithdrawMargin
    \/ AddWhitelist
    \/ RemoveWhitelist
    \/ Deliver
    \/ VammMove
    \/ NextBlock

SpecAccess == Init /\ [][NextAccess]_vars

\* one position with every request the engine serves on it: funding, margin
\* moves, TP/SL updates and triggers, close and liquidation
NextFunding ==
    \/ OpenPosition \/ ClosePosition \/ PayFunding \/ DepositMargin
    \/ WithdrawMargin \/ Deliver \/ VammMove \/ NextBlock

SpecFunding == Init /\ [][NextFunding]_vars

NextDeposit ==
    \/ OpenPositionTpSl \/ ClosePosition \/ PayFunding \/ DepositMarginOnTop
    \/ Deliver \/ VammMove \/ NextBlock

SpecDeposit == Init /\ [][NextDeposit]_vars

NextOpen ==
    \/ OpenPositionAny \/ Deliver \/ VammMove \/ NextBlock

SpecOpen == Init /\ [][NextOpen]_vars

\* positions opened without take profit and stop loss, set by update_tp_sl only
NextUpdate ==
    \/ OpenPosition \/ UpdateTpSlAny \/ ClosePosition
    \/ Deliver \/ VammMove \/ NextBlock

SpecUpdate == Init /\ [][NextUpdate]_vars

NextRounds ==
    \/ OpenPosition \/ ClosePosition \/ Liquidate \/ PayFundingRounds
    \/ DepositMargin \/ WithdrawMargin \/ DeliverFunding \/ NextBlock

SpecRounds == Init /\ [][NextRounds]_vars

----------------------------------------------------------------------------
(* The margin calculator on its own: a position, a funding series and a     *)
(* margin delta are drawn, calc_remain_margin_with_funding_payment applied  *)

CalcMarginSet == {0, 3, 10}
CalcSizeSet == {0 - 20, 0 - 7, 0, 7, 20}
CalcFractionSet == {0 - 5, 0, 3, 5}
CalcDeltaSet == {0 - 12, 0 - 3, 0, 3, 12}
CalcSeriesSet == {<<>>} \cup {<<f>> : f \in CalcFractionSet}

CalcPosition(c) ==
    [position_id |-> 1, vamm |-> "vamm", trader |-> "alice",
     side |-> IF c.size < 0 THEN "Sell" ELSE "Buy",
     direction |-> IF c.size < 0 THEN "RemoveFromAmm" ELSE "AddToAmm",
     size |-> c.size, margin |-> c.margin, notional |-> 2 * c.margin,
     entry_price |-> Decimals, take_profit |-> None, stop_loss |-> None,
     last_updated_premium_fraction |-> c.last_updated_premium_fraction,
     spread_fee |-> 0, toll_fee |-> 0]

InitCalc ==
    /\ \E series \in CalcSeriesSet :
         store = [InitStore EXCEPT
                    !.vamm_map["vamm"].cumulative_premium_fractions = series]
    /\ committed = store
    /\ queue = <<>>
    /\ height = 1
    /\ reserve \in ReserveSet
    /\ result = ""
    /\ calc \in [used : {FALSE}, margin : CalcMarginSet, size : CalcSizeSet,
                 last_updated_premium_fraction : CalcFractionSet,
                 margin_delta : CalcDeltaSet,
                 out : {[funding_payment |-> 0, margin |-> 0, bad_debt |-> 0,
                         latest_premium_fraction |-> 0]}]

ApplyRemainMargin ==
    /\ ~calc.used
    /\ calc' = [calc EXCEPT
                  !.used = TRUE,
                  !.out = calc_remain_margin_with_funding_payment(
                              store, CalcPosition(calc), calc.margin_delta)]
    /\ UNCHANGED <<store, committed, queue, height, reserve, result>>

NextCalc == ApplyRemainMargin

SpecMargin == InitCalc /\ [][NextCalc]_vars

----------------------------------------------------------------------------
(* The funding series on its own: two premium fractions are appended to one *)
(* copy of the storage one after the other, their sum to another copy       *)

SeriesStore(series) ==
    [InitStore EXCEPT !.vamm_map["vamm"].cumulative_premium_fractions = series]

InitSeries ==
    /\ store = InitStore
    /\ committed = store
    /\ queue = <<>>
    /\ height = 1
    /\ reserve \in ReserveSet
    /\ result = ""
    /\ \E series \in CalcSeriesSet :
         calc \in [steps : {0}, joined : {FALSE},
                   p1 : CalcFractionSet, p2 : CalcFractionSet,
                   margin : {10}, size : CalcSizeSet,
                   last_updated_premium_fraction : CalcFractionSet,
                   split_store : {SeriesStore(series)},
                   joined_store : {SeriesStore(series)}]

\* one of the two separate appends
AppendSplit ==
    /\ calc.steps < 2
    /\ calc' = [calc EXCEPT
                  !.steps = calc.steps + 1,
                  !.split_store =
                     append_cumulative_premium_fraction(calc.split_store, "vamm",
                        IF calc.steps = 0 THEN calc.p1 ELSE calc.p2)]
    /\ UNCHANGED <<store, committed, queue, height, reserve, result>>

\* the single append of the sum
AppendJoined ==
    /\ ~calc.joined
    /\ calc' = [calc EXCEPT
                  !.joined = TRUE,
                  !.joined_store =
                     append_cumulative_premium_fraction(calc.joined_store, "vamm",
                        calc.p1 + calc.p2)]
    /\ UNCHANGED <<store, committed, queue, height, reserve, result>>

NextSeries == AppendSplit \/ AppendJoined

SpecSeries == InitSeries /\ [][NextSeries]_vars

----------------------------------------------------------------------------
(* The PnL calculator on its own: a position and a calculation option are   *)
(* drawn, the notional, the PnL and the margin ratio computed               *)

PnlCalcOptions == {"SpotPrice", "Twap", "Oracle"}

InitPnl ==
    /\ \E series \in CalcSeriesSet : store = SeriesStore(series)
    /\ committed = store
    /\ queue = <<>>
    /\ height = 1
    /\ reserve \in ReserveSet
    /\ result = ""
    /\ calc \in [used : {FALSE}, margin : CalcMarginSet, size : CalcSizeSet,
                 last_updated_premium_fraction : CalcFractionSet,
                 calc_option : PnlCalcOptions,
                 pnl : {[position_notional |-> 0, unrealized_pnl |-> 0]},
                 margin_ratio : {0}, queries : {{}}]

ApplyPnl ==
    /\ ~calc.used
    /\ LET position == CalcPosition(calc)
           env == Env(height, reserve, "alice")
       IN calc' = [calc EXCEPT
                     !.used = TRUE,
                     !.pnl = get_position_notional_unrealized_pnl(
                                store, env, position, calc.calc_option),
                     !.margin_ratio = query_margin_ratio(store, env, position),
                     !.queries = PnlQueries(position, calc.calc_option)
                                   \cup MarginRatioQueries(position)]
    /\ UNCHANGED <<store, committed, queue, height, reserve, result>>

NextPnl == ApplyPnl

SpecPnl == InitPnl /\ [][NextPnl]_vars

----------------------------------------------------------------------------
(* The claims *)

SwapReplyIds == ReplyIds \ {PAY_FUNDING_REPLY_ID}
LiquidationIds == {LIQUIDATION_REPLY_ID, PARTIAL_LIQUIDATION_REPLY_ID}

Awaited == {queue[i] : i \in 1..Len(queue)}
AwaitedSwaps == {msg \in Awaited : msg.id \in SwapReplyIds}

\* the step is the acceptance of a request whose first submessage is msg
Issues(msg) == Idle /\ queue' # <<>> /\ Head(queue') = msg

\* the error text that names the operation kind of a continuation identifier
KindError ==
    [id \in ReplyIds |->
       CASE id = INCREASE_POSITION_REPLY_ID -> "open position failure - reply (id 1)"
         [] id = CLOSE_POSITION_REPLY_ID -> "close position failure - reply (id 2)"
         [] id = PARTIAL_CLOSE_POSITION_REPLY_ID ->
              "partial close position failure - reply (id 3)"
         [] id = LIQUIDATION_REPLY_ID -> "liquidation failure - reply (id 4)"
         [] id = PARTIAL_LIQUIDATION_REPLY_ID ->
              "partial liquidation failure - reply (id 5)"
         [] OTHER -> "funding payment failure - reply (id 6)"]

\* C1: whatever the operation kind, a continuation delivered with an error
\* outcome ends the request with the error text naming that kind, leaves
\* nothing awaited (no retry) and leaves the engine's storage exactly as it
\* was before the originating request.
C1_ErrorContinuationAborts ==
    [][\A premium \in PremiumSet :
         DeliverWith(FALSE, premium) =>
           /\ result' = KindError[Head(queue).id]
           /\ queue' = <<>>
           /\ store' = committed
           /\ committed' = committed]_vars

C1_Witness ==
    /\ result = "partial liquidation failure - reply (id 5)"
    /\ Idle
    /\ store = committed
    /\ Has(store.positions, <<"vamm", 1>>)

\* C2 (as claimed): while any continuation is awaited, the pay_funding one
\* included, a Pending Swap Descriptor for it exists in storage.
C2_EveryAwaitedHasDescriptor ==
    \A msg \in Awaited :
        IF msg.id \in SwapReplyIds
        THEN Has(store.tmp_swap, msg.position_id)
        ELSE DOMAIN store.tmp_swap # {}

\* C2 (amended): every awaited swap continuation (open, close, partial close,
\* liquidate, partial liquidate) has its descriptor in storage, under the
\* position id of the call and for the same market; the pay_funding call is
\* issued without any descriptor being written.
C2_SwapAwaitedHasDescriptor ==
    \A msg \in Awaited :
        IF msg.id \in SwapReplyIds
        THEN /\ Has(store.tmp_swap, msg.position_id)
             /\ store.tmp_swap[msg.position_id].position_id = msg.position_id
             /\ store.tmp_swap[msg.position_id].vamm = msg.vamm
        ELSE /\ msg.id = PAY_FUNDING_REPLY_ID
             /\ store.tmp_swap = committed.tmp_swap

C2_Witness ==
    \E msg \in Awaited :
        /\ msg.id = CLOSE_POSITION_REPLY_ID
        /\ Has(store.tmp_swap, msg.position_id)
        /\ store.tmp_swap[msg.position_id].margin_amount = msg.amount

\* C3 (as claimed): at most one descriptor is outstanding for any continuation
\* identifier.
C3_OneDescriptorPerIdentifier ==
    \A id \in ReplyIds :
        Cardinality({p \in DOMAIN store.tmp_swap :
                       \E msg \in Awaited : msg.id = id /\ msg.position_id = p}) <= 1

\* C3 (amended): descriptors are kept per position id: the descriptors in
\* storage are exactly those of the positions whose swap continuation is
\* awaited, one each, and no two awaited continuations concern the same
\* position; a batch has one per closed position, all under the close id.
C3_OneDescriptorPerPosition ==
    /\ DOMAIN store.tmp_swap = {msg.position_id : msg \in AwaitedSwaps}
    /\ \A i, j \in 1..Len(queue) :
          (i # j /\ queue[i].id \in SwapReplyIds /\ queue[j].id \in SwapReplyIds)
             => queue[i].position_id # queue[j].position_id

C3_Witness ==
    /\ Len(queue) = 2
    /\ \A msg \in Awaited : msg.id = CLOSE_POSITION_REPLY_ID
    /\ DOMAIN store.tmp_swap = {1, 2}

C5_ZeroSizePositionUntouched ==
    [][\A k \in DOMAIN committed.positions :
         committed.positions[k].size = 0 =>
            committed'.positions[k] = committed.positions[k]]_vars

\* C6: the remaining-margin computation, with r = margin_delta -
\* funding_payment + position.margin, returns margin = r and bad_debt = 0 when
\* r >= 0 and margin = 0 and bad_debt = |r| otherwise; neither is negative and
\* they are never both non-zero.
C6_RemainMarginClamped ==
    calc.used =>
      LET r == calc.margin_delta - calc.out.funding_payment + calc.margin
      IN /\ calc.out.margin >= 0
         /\ calc.out.bad_debt >= 0
         /\ r >= 0 => (calc.out.margin = r /\ calc.out.bad_debt = 0)
         /\ r < 0 => (calc.out.margin = 0 /\ calc.out.bad_debt = 0 - r)
         /\ ~(calc.out.margin # 0 /\ calc.out.bad_debt # 0)

C6_Witness ==
    /\ calc.used
    /\ calc.out.bad_debt > 0
    /\ calc.out.funding_payment # 0
    /\ calc.margin > 0

\* the spot-price margin ratio of a stored position, as liquidate reads it
SpotMarginRatio(id) ==
    query_margin_ratio(store, Env(height, reserve, Owner), store.positions[<<"vamm", id>>])

\* C7: a liquidation is issued only for a position whose spot-price margin
\* ratio is at most the maintenance margin ratio (the position and the pool
\* are as the handler read them for as long as its call is awaited); above it
\* liquidate fails for every caller.
C7_LiquidateOnlyUndercollateralized ==
    /\ \A msg \in Awaited :
          msg.id \in LiquidationIds =>
             SpotMarginRatio(msg.position_id) <= store.config.maintenance_margin_ratio
    /\ \A id \in PositionIds, sender \in Addrs :
          (/\ Has(store.positions, <<"vamm", id>>)
           /\ SpotMarginRatio(id) > store.config.maintenance_margin_ratio)
          => ~liquidate(store, Env(height, reserve, sender), "vamm", id, 0).ok

C7_Witness ==
    /\ \E msg \in Awaited : msg.id = LIQUIDATION_REPLY_ID
    /\ store.positions[<<"vamm", 1>>].size # 0
    /\ SpotMarginRatio(1) <= store.config.maintenance_margin_ratio
    /\ SpotMarginRatio(1) >= 0

\* C8: an accepted liquidate takes the partial path exactly when the margin
\* ratio as a signed value exceeds liquidation_fee and the partial-liquidation
\* ratio is non-zero; otherwise it is a full close under the liquidation id.
C8_PartialIffSignedRatioAboveFee ==
    [][\A msg \in Awaited' :
         (Issues(msg) /\ msg.id \in LiquidationIds) =>
            ((msg.id = PARTIAL_LIQUIDATION_REPLY_ID)
               <=> (/\ SpotMarginRatio(msg.position_id) > store.config.liquidation_fee
                    /\ store.config.partial_liquidation_ratio # 0))]_vars

\* C9: a partial liquidation whose quote for the partial size exceeds the
\* stored notional issues swap-input for the stored notional; otherwise it
\* issues swap-output for the partial size.
C9_PartialLiquidationBranch ==
    [][\A msg \in Awaited' :
         (Issues(msg) /\ msg.id = PARTIAL_LIQUIDATION_REPLY_ID) =>
            LET position == store.positions[<<"vamm", msg.position_id>>]
                partial_size ==
                  (Abs(position.size) * store.config.partial_liquidation_ratio)
                     \div store.config.decimals
                quoted == get_output_price_with_reserves(position.direction,
                              partial_size, reserve.quote_asset_reserve,
                              reserve.base_asset_reserve)
            IN IF quoted > position.notional
               THEN msg.kind = "swap_input" /\ msg.amount = position.notional
               ELSE msg.kind = "swap_output" /\ msg.amount = partial_size]_vars

C9_Witness ==
    \E msg \in Awaited :
        /\ msg.id = PARTIAL_LIQUIDATION_REPLY_ID
        /\ msg.kind = "swap_input"
        /\ msg.amount = store.positions[<<"vamm", msg.position_id>>].notional

\* C10: a liquidation of a whitelisted trader's position is issued only when
\* the caller is that trader; any other caller is rejected whatever the
\* margin ratio.
C10_WhitelistedLiquidatedByTraderOnly ==
    [][/\ \A msg \in Awaited' :
            (/\ Issues(msg)
             /\ msg.id \in LiquidationIds
             /\ store.positions[<<"vamm", msg.position_id>>].trader \in store.whitelist)
            => store'.tmp_liquidator = store.positions[<<"vamm", msg.position_id>>].trader
       /\ \A id \in PositionIds, sender \in Addrs :
            (/\ Has(store.positions, <<"vamm", id>>)
             /\ store.positions[<<"vamm", id>>].trader \in store.whitelist
             /\ sender # store.positions[<<"vamm", id>>].trader)
            => ~liquidate(store, Env(height, reserve, sender), "vamm", id, 0).ok]_vars

C10_Witness ==
    /\ result = "trader is whitelisted"
    /\ store.positions[<<"vamm", 1>>].trader \in store.whitelist
    /\ store.positions[<<"vamm", 1>>].size # 0
    /\ SpotMarginRatio(1) <= store.config.maintenance_margin_ratio

\* the outcome of close_position for a request arriving in the current state
CloseOutcome(trader, id, over) ==
    close_position(store, [Env(height, reserve, trader) EXCEPT !.over_fluctuation = over],
                   "vamm", id, 0)

\* C11: an accepted close_position takes the partial-close path (partial-close
\* identifier) exactly when the full close would exceed the fluctuation limit
\* and the partial-liquidation ratio is non-zero; otherwise it closes the whole
\* size under the close identifier.
C11_PartialCloseIffOverLimitAndRatio ==
    Idle =>
      \A trader \in Traders, id \in PositionIds, over \in BOOLEAN :
        LET r == CloseOutcome(trader, id, over) IN
        r.ok =>
          LET msg == Head(r.msgs)
              position == store.positions[<<"vamm", id>>]
          IN IF over /\ store.config.partial_liquidation_ratio # 0
             THEN msg.id = PARTIAL_CLOSE_POSITION_REPLY_ID
             ELSE /\ msg.id = CLOSE_POSITION_REPLY_ID
                  /\ msg.kind = "swap_output"
                  /\ msg.amount = Abs(position.size)

TwapEnv(twap_quote) ==
    [Env(height, reserve, "alice") EXCEPT !.twap_quote_reserve = twap_quote]

\* free collateral from one PnL evaluation, as query.rs:273-300 derives it
FreeCollateralFrom(position, pnl, env) ==
    LET account_value == pnl.unrealized_pnl + position.margin
        minimum_collateral ==
          IF account_value - position.margin > 0 THEN position.margin ELSE account_value
        margin_requirement ==
          IF position.size > 0
          THEN (position.notional * env.vamm_initial_margin_ratio) \div Decimals
          ELSE (pnl.position_notional * env.vamm_initial_margin_ratio) \div Decimals
    IN minimum_collateral - margin_requirement

\* C13: free_collateral evaluates the PnL under SpotPrice and under Twap and
\* uses the evaluation whose absolute magnitude is the larger one, together
\* with its notional.
C13_FreeCollateralUsesLargerMagnitude ==
    \A id \in PositionIds, twap_quote \in QuoteReserveSet :
      (Has(store.positions, <<"vamm", id>>) /\ store.positions[<<"vamm", id>>].size # 0)
      => LET env == TwapEnv(twap_quote)
             position == query_trader_position_with_funding_payment(store, "vamm", id)
             spot_pnl == get_position_notional_unrealized_pnl(store, env, position, "SpotPrice")
             twap_pnl == get_position_notional_unrealized_pnl(store, env, position, "Twap")
         IN Abs(spot_pnl.unrealized_pnl) # Abs(twap_pnl.unrealized_pnl)
            => query_free_collateral(store, env, "vamm", id)
                 = FreeCollateralFrom(position,
                      IF Abs(spot_pnl.unrealized_pnl) > Abs(twap_pnl.unrealized_pnl)
                      THEN spot_pnl ELSE twap_pnl, env)

\* C14: a successful deposit_margin adds exactly amount to the position's
\* margin and changes nothing else: size, notional, entry price, side and
\* direction, take profit, stop loss, last_updated_premium_fraction, the tick
\* counters and the funding series are as before.
C14_DepositOnlyAddsMargin ==
    [][\A trader \in Traders, id \in PositionIds, amount \in AmountSet :
         (/\ Has(store.positions, <<"vamm", id>>)
          /\ Submit(deposit_margin(store, Env(height, reserve, trader), "vamm", id, amount))
          /\ result' = "ok")
         => /\ store' = [store EXCEPT !.positions[<<"vamm", id>>].margin = @ + amount]
            /\ committed' = store'
            /\ queue' = queue]_vars

\* a long position holds more than its opening margin: only a deposit does that
C14_Witness ==
    /\ Idle
    /\ result = "ok"
    /\ Has(committed.positions, <<"vamm", 1>>)
    /\ committed.positions[<<"vamm", 1>>].size > 0
    /\ committed.positions[<<"vamm", 1>>].margin = MaxDepositedMargin
    /\ committed.vamm_map["vamm"].cumulative_premium_fractions # <<>>

\* C15: appending p1 and then p2 to the funding series leaves the same latest
\* cumulative premium fraction as appending p1 + p2 once, and a position that
\* was not touched in between owes the same funding payment either way.
C15_AppendIsAdditive ==
    (calc.steps = 2 /\ calc.joined)
    => LET split_latest == query_cumulative_premium_fraction(calc.split_store, "vamm")
           joined_latest == query_cumulative_premium_fraction(calc.joined_store, "vamm")
           position == CalcPosition(calc)
       IN /\ split_latest = joined_latest
          /\ calc_funding_payment(position, split_latest, Decimals)
               = calc_funding_payment(position, joined_latest, Decimals)
          /\ calc_remain_margin_with_funding_payment(calc.split_store, position, 0)
               = calc_remain_margin_with_funding_payment(calc.joined_store, position, 0)

\* both ways were taken with two non-zero fractions on a non-empty series, and
\* the position owes a non-zero payment
C15_Witness ==
    /\ calc.steps = 2
    /\ calc.joined
    /\ calc.p1 # 0
    /\ calc.p2 # 0
    /\ Len(calc.split_store.vamm_map["vamm"].cumulative_premium_fractions) = 3
    /\ calc_funding_payment(CalcPosition(calc),
          query_cumulative_premium_fraction(calc.split_store, "vamm"), Decimals) # 0

FundingSeries(s) == s.vamm_map["vamm"].cumulative_premium_fractions

\* the step is a successful continuation of pay_funding carrying premium
FundingSettled(premium) ==
    /\ ~Idle
    /\ Head(queue).id = PAY_FUNDING_REPLY_ID
    /\ DeliverWith(TRUE, premium)

C17_ZeroSizeIsZeroWithoutQueries ==
    (calc.used /\ calc.size = 0)
    => /\ calc.pnl = [position_notional |-> 0, unrealized_pnl |-> 0]
       /\ calc.margin_ratio = 0
       /\ calc.queries = {}

\* a zero-size record that still carries margin and notional was evaluated
C17_Witness ==
    /\ calc.used
    /\ calc.size = 0
    /\ calc.margin # 0
    /\ calc.calc_option = "Oracle"

\* the step is an open_position request with the given arguments
OpenRequested(trader, side, m, l, tp, sl) ==
    Submit(open_position(store, Env(height, reserve, trader), "vamm", side, m, l, tp, sl))

\* the guards open_position runs before it looks at the leverage floor
OpenEarlierGuards(trader, m, l) ==
    FirstError(<<
        require_is_not_over_price_diff_limit(Env(height, reserve, trader)),
        is_whitelisted(store, trader),
        require_not_paused(Paused(store.state.pause)),
        require_vamm(store, Env(height, reserve, trader)),
        require_not_restriction_mode(store, "vamm", height, trader),
        require_non_zero_input(m),
        require_non_zero_input(l) >>)

\* C18 as stated: an open_position request with leverage below decimals
\* always fails with the error "Leverage must be greater than 1", whatever the
\* margin amount and the leverage, and leaves no position, no descriptor and
\* no consumed position id.
C18_SubUnitLeverageAlwaysLeverageError ==
    [][\A trader \in Openers, side \in Sides, m \in OpenMarginSet, l \in OpenLeverageSet,
          tp \in OpenTpSlSet, sl \in OpenTpSlSet :
         (l < store.config.decimals /\ OpenRequested(trader, side, m, l, tp, sl))
         => /\ result' = "Leverage must be greater than 1"
            /\ store' = store
            /\ committed' = committed
            /\ queue' = <<>>]_vars

\* C18 amended: an open_position request with leverage below decimals always
\* fails and leaves no position, no descriptor and no consumed position id;
\* the error is "Leverage must be greater than 1" when the guards that run
\* before the leverage floor pass (among them a non-zero margin amount and a
\* non-zero leverage), and the error of the first failing guard otherwise.
C18_SubUnitLeverageAlwaysFails ==
    [][\A trader \in Openers, side \in Sides, m \in OpenMarginSet, l \in OpenLeverageSet,
          tp \in OpenTpSlSet, sl \in OpenTpSlSet :
         (l < store.config.decimals /\ OpenRequested(trader, side, m, l, tp, sl))
         => /\ result' = IF OpenEarlierGuards(trader, m, l) # ""
                         THEN OpenEarlierGuards(trader, m, l)
                         ELSE "Leverage must be greater than 1"
            /\ store' = store
            /\ committed' = committed
            /\ queue' = <<>>]_vars

\* a request was refused for its leverage
C18_Witness ==
    /\ Idle
    /\ result = "Leverage must be greater than 1"
    /\ store = committed

\* the entry price open_position quotes before the trade (no fees charged)
OpenEntryPrice(trader, side, m, l) ==
    query_input_price(Env(height, reserve, trader), side_to_direction(side),
                      (m * l) \div store.config.decimals)

\* the supplied take profit and stop loss strictly bracket the entry price
StrictlyBrackets(side, take_profit, stop_loss, entry_price) ==
    IF side = "Buy"
    THEN /\ (take_profit # None => take_profit > entry_price)
         /\ (stop_loss # None => entry_price > stop_loss)
    ELSE /\ (take_profit # None => take_profit < entry_price)
         /\ (stop_loss # None => entry_price < stop_loss)

\* C19: open_position is rejected unless the supplied take profit and stop
\* loss strictly bracket the entry price quoted before the trade (Buy:
\* TP > entry > SL, Sell: TP < entry < SL); a take profit or a stop loss equal
\* to the entry price is rejected on either side.
C19_OpenRejectsUnlessStrictBracket ==
    [][\A trader \in Openers, side \in Sides, m \in OpenMarginSet, l \in OpenLeverageSet,
          tp \in OpenTpSlSet, sl \in OpenTpSlSet :
         (/\ OpenRequested(trader, side, m, l, tp, sl)
          /\ OpenEarlierGuards(trader, m, l) = ""
          /\ ~StrictlyBrackets(side, tp, sl, OpenEntryPrice(trader, side, m, l)))
         => /\ result' \notin {"", "ok"}
            /\ queue' = <<>>
            /\ store' = store]_vars

\* the guards update_tp_sl runs before it compares prices
UpdateEarlierGuards(trader, position, tp, sl) ==
    FirstError(<<
        require_not_paused(Paused(store.state.pause)),
        require_position_not_zero(Abs(position.size)),
        IF position.trader # trader THEN Unauthorized ELSE "",
        IF tp = None /\ sl = None
          THEN "Both take profit and stop loss are not set" ELSE "" >>)

\* C20: update_tp_sl judges the new take profit and stop loss against the
\* entry_price stored in the position, by the rules open_position applies to
\* its quoted entry price, whatever the vAMM's live price is; on success only
\* take_profit and stop_loss of the position change (a value not supplied is
\* kept), and on every rejection, also when one of two supplied values is
\* valid and the other is not, nothing is stored.
C20_UpdateUsesStoredEntryPrice ==
    Idle =>
      \A trader \in Traders, id \in PositionIds, tp \in OpenTpSlSet, sl \in OpenTpSlSet :
        Has(store.positions, <<"vamm", id>>)
        => LET position == store.positions[<<"vamm", id>>]
               early == UpdateEarlierGuards(trader, position, tp, sl)
               verdict == OpenTpSlError(position.side, tp, sl, position.entry_price)
               r == update_tp_sl(store, Env(height, reserve, trader), "vamm", id, tp, sl)
           IN /\ IF early # "" \/ verdict # ""
                 THEN /\ ~r.ok
                      /\ r.err = IF early # "" THEN early ELSE verdict
                      /\ r.store = store
                 ELSE /\ r.ok
                      /\ r.msgs = <<>>
                      /\ r.store = [store EXCEPT !.positions[<<"vamm", id>>] =
                                      [position EXCEPT
                                         !.take_profit = IF tp # None THEN tp ELSE @,
                                         !.stop_loss = IF sl # None THEN sl ELSE @]]
              /\ \A rsv \in ReserveSet :
                    update_tp_sl(store, Env(height, rsv, trader), "vamm", id, tp, sl) = r

\* an open position carries a take profit and a stop loss set by update_tp_sl
\* that open_position would refuse at the vAMM's present price
C20_Witness ==
    /\ Idle
    /\ Has(committed.positions, <<"vamm", 1>>)
    /\ LET position == committed.positions[<<"vamm", 1>>]
       IN /\ position.size # 0
          /\ position.take_profit # None
          /\ position.stop_loss # None
          /\ OpenTpSlError(position.side, position.take_profit, position.stop_loss,
                           position.entry_price) = ""
          /\ OpenTpSlError(position.side, position.take_profit, position.stop_loss,
                           OpenEntryPrice(position.trader, position.side, 10, 20)) # ""

----------------------------------------------------------------------------
(* Restriction mode over two markets *)

Markets == {"vamm", "vamm2"}

MarketsStore ==
    [InitStore EXCEPT
       !.vamm_map = [v \in Markets |->
                       [last_restriction_block |-> 0,
                        cumulative_premium_fractions |-> <<>>]]]

InitMarkets ==
    /\ store = MarketsStore
    /\ committed = MarketsStore
    /\ queue = <<>>
    /\ height = 1
    /\ reserve \in ReserveSet
    /\ result = ""
    /\ calc = NoCalc

MarketOpenPosition ==
    \E trader \in Traders, vamm \in Markets, m \in MarginSet, l \in LeverageSet :
        /\ store.last_position_id < MaxBatchPositionId
        /\ Submit(open_position(store, Env(height, reserve, trader), vamm,
                                "Buy", m, l, None, None))

MarketClosePosition ==
    \E trader \in Traders, vamm \in Markets, id \in PositionIds :
        Submit(close_position(store, Env(height, reserve, trader), vamm, id, 0))

NextMarkets ==
    \/ MarketOpenPosition
    \/ MarketClosePosition
    \/ AddWhitelist
    \/ Deliver
    \/ NextBlock

SpecMarkets == InitMarkets /\ [][NextMarkets]_vars

OnlyOneAction == "Only one action allowed"

\* the restriction stamp of the market is the current height and the trader is
\* not on the whitelist
Restricted(trader, vamm) ==
    /\ store.vamm_map[vamm].last_restriction_block = height
    /\ trader \notin store.whitelist

MarketOpenError(trader, vamm) ==
    open_position(store, Env(height, reserve, trader), vamm, "Buy", 10, 20, None, None).err

MarketCloseError(trader, vamm, id) ==
    close_position(store, Env(height, reserve, trader), vamm, id, 0).err

\* the trader has a position record in the market
ActedIn(trader, vamm) ==
    \E id \in PositionIds :
        /\ Has(store.positions, <<vamm, id>>)
        /\ store.positions[<<vamm, id>>].trader = trader

\* C21 as stated: restriction mode rejects an open or close of a
\* non-whitelisted trader only in a market where that trader has acted; a
\* trader who has not acted in the market is not blocked by the actions of
\* others, and a whitelisted trader is never blocked.
C21_RestrictionIsPerTrader ==
    Idle =>
      \A trader \in Traders, vamm \in Markets :
        (MarketOpenError(trader, vamm) = OnlyOneAction)
        => trader \notin store.whitelist /\ ActedIn(trader, vamm)

\* C21: the restriction stamp belongs to the market, not to a trader: an open,
\* or a close of an own open position, is rejected with "Only one action
\* allowed" exactly when the market's last_restriction_block is the current
\* height and the trader is not whitelisted, whoever set the stamp; another
\* market, a later height and a whitelisted trader are not blocked.
C21_RestrictionIsPerMarket ==
    Idle =>
      \A trader \in Traders, vamm \in Markets :
        /\ (MarketOpenError(trader, vamm) = OnlyOneAction) <=> Restricted(trader, vamm)
        /\ store.vamm_map[vamm].last_restriction_block <= height
        /\ \A id \in PositionIds :
             (/\ Has(store.positions, <<vamm, id>>)
              /\ store.positions[<<vamm, id>>].trader = trader
              /\ store.positions[<<vamm, id>>].size # 0)
             => ((MarketCloseError(trader, vamm, id) = OnlyOneAction)
                    <=> Restricted(trader, vamm))

\* alice opened in one market at the current height: bob, who holds no
\* position anywhere, is rejected there and accepted in the other market
C21_Witness ==
    /\ Idle
    /\ height = 2
    /\ Has(store.positions, <<"vamm", 1>>)
    /\ store.positions[<<"vamm", 1>>].trader = "alice"
    /\ store.last_position_id = 1
    /\ store.vamm_map["vamm"].last_restriction_block = 2
    /\ MarketOpenError("bob", "vamm") = OnlyOneAction
    /\ MarketOpenError("bob", "vamm2") = ""
    /\ "alice" \in store.whitelist
    /\ MarketOpenError("alice", "vamm") = ""
    /\ MarketCloseError("alice", "vamm", 1) = ""

----------------------------------------------------------------------------
(* The pause states *)

NextPause ==
    \/ OpenPosition
    \/ ClosePosition
    \/ Liquidate
    \/ DepositMargin
    \/ WithdrawMargin
    \/ SetPause
    \/ Deliver
    \/ NextBlock

SpecPause == Init /\ [][NextPause]_vars

PausedError == "Margin engine is paused"

\* a request that is refused with the paused error and writes nothing
RefusedAsPaused(r) ==
    /\ ~r.ok
    /\ r.err = PausedError
    /\ r.store = store
    /\ r.msgs = <<>>

OwnsOpenPosition(trader, id) ==
    /\ Has(store.positions, <<"vamm", id>>)
    /\ store.positions[<<"vamm", id>>].trader = trader
    /\ store.positions[<<"vamm", id>>].size # 0

NotRefusedAsPaused(r) == r.err # PausedError

\* C23: the selective pause states block exactly their own operations: with
\* pause state Open only open_position is refused as paused and deposit_margin,
\* withdraw_margin and close_position are not; with pause state Close,
\* close_position and liquidate are refused as paused and open_position,
\* deposit_margin and withdraw_margin are not.
C23_SelectivePauseBlocksOwnOperations ==
    Idle =>
      \A trader \in Traders, id \in PositionIds, amount \in AmountSet :
        LET env == Env(height, reserve, trader)
            open == open_position(store, env, "vamm", "Buy", 10, 20, None, None)
            deposit == deposit_margin(store, env, "vamm", id, amount)
            withdraw == withdraw_margin(store, env, "vamm", id, amount)
            close == close_position(store, env, "vamm", id, 0)
            liq == liquidate(store, env, "vamm", id, 0)
        IN /\ store.state.pause = "Open"
                => /\ RefusedAsPaused(open)
                   /\ NotRefusedAsPaused(deposit)
                   /\ NotRefusedAsPaused(withdraw)
                   /\ NotRefusedAsPaused(close)
           /\ store.state.pause = "Close"
                => /\ RefusedAsPaused(liq)
                   /\ OwnsOpenPosition(trader, id) => RefusedAsPaused(close)
                   /\ NotRefusedAsPaused(open)
                   /\ NotRefusedAsPaused(deposit)
                   /\ NotRefusedAsPaused(withdraw)

\* C24: close_position on a position id that is not stored fails with the
\* position-not-found error in every pause state, whoever sends it, and
\* changes nothing: the lookup precedes the pause check.
C24_CloseOfMissingPositionIsNotFound ==
    Idle =>
      \A trader \in Traders, id \in 1..(MaxPositionId + 1) :
        ~Has(store.positions, <<"vamm", id>>)
        => LET r == close_position(store, Env(height, reserve, trader), "vamm", id, 0)
           IN /\ ~r.ok
              /\ r.err = NotFound
              /\ r.store = store

\* a close of a missing position was answered with not found while the engine
\* was paused with Close
C24_Witness ==
    /\ Idle
    /\ store.state.pause = "Close"
    /\ result = NotFound
    /\ ~Has(store.positions, <<"vamm", 1>>)

----------------------------------------------------------------------------
(* The open-interest update on its own: an open interest, a whitelist, a   *)
(* cap, a change and a trader are drawn and the update applied             *)

CapSet == {0, 20, 30}
CapInterestSet == {0, 20, 30}
\* increases and decreases, smaller and larger than the open interest
CapAmountSet == {0 - 50, 0 - 20, 20, 50}

CapStore(open_interest, whitelist) ==
    [InitStore EXCEPT !.state.open_interest_notional = open_interest,
                      !.whitelist = whitelist]

InitCap ==
    /\ \E open_interest \in CapInterestSet, whitelist \in SUBSET WhitelistSet :
          store = CapStore(open_interest, whitelist)
    /\ committed = store
    /\ queue = <<>>
    /\ height = 1
    /\ reserve \in ReserveSet
    /\ result = ""
    /\ calc \in [used : {FALSE}, cap : CapSet, amount : CapAmountSet, trader : Traders,
                 err : {""}, open_interest_notional : {0}]

ApplyCap ==
    /\ ~calc.used
    /\ LET env == [Env(height, reserve, "vamm") EXCEPT
                     !.open_interest_notional_cap = calc.cap]
           r == update_open_interest_notional(store, env, calc.amount, calc.trader)
       IN calc' = [calc EXCEPT
                     !.used = TRUE,
                     !.err = r.err,
                     !.open_interest_notional = r.store.state.open_interest_notional]
    /\ UNCHANGED <<store, committed, queue, height, reserve, result>>

NextCap == ApplyCap

SpecCap == InitCap /\ [][NextCap]_vars

\* C25: the open-interest cap is never enforced against a whitelisted trader,
\* whatever the direction or size of the change; for a non-whitelisted trader
\* the update is rejected exactly when the cap is non-zero, the change is
\* positive and the updated open interest exceeds the cap; a change that
\* reduces open interest is never rejected; an accepted update stores the sum,
\* floored at zero.
C25_CapBindsOnlyNonWhitelistedIncreases ==
    calc.used =>
      LET sum == calc.amount + store.state.open_interest_notional
          updated == IF sum < 0 THEN 0 ELSE sum
          exceeds == calc.cap # 0 /\ calc.amount > 0 /\ updated > calc.cap
      IN /\ calc.trader \in store.whitelist => calc.err = ""
         /\ calc.trader \notin store.whitelist
              => ((calc.err = "open interest exceeds cap") <=> exceeds)
         /\ calc.amount < 0 => calc.err = ""
         /\ calc.err \in {"", "open interest exceeds cap"}
         /\ calc.err = "" => calc.open_interest_notional = updated
         /\ calc.err # "" => calc.open_interest_notional = store.state.open_interest_notional

\* a whitelisted trader raised the open interest above a non-zero cap
C25_Witness ==
    /\ calc.used
    /\ calc.trader \in store.whitelist
    /\ calc.cap = 20
    /\ calc.amount = 50
    /\ calc.err = ""
    /\ calc.open_interest_notional = 80

\* C26: position ids are strictly increasing in order of successful opens and
\* globally unique: a position that appears takes the id one above the last
\* id issued, which is above every id in use in any market; no two stored
\* positions of the same or of different markets share an id; and a stored
\* position keeps its key, so the id of a closed position is never given out
\* again.
C26_PositionIdsIncreaseAndAreUnique ==
    [][LET old == DOMAIN committed.positions
           new == DOMAIN committed'.positions
       IN /\ old \subseteq new
          /\ committed'.last_position_id >= committed.last_position_id
          /\ \A k \in new \ old :
               /\ k[2] = committed.last_position_id + 1
               /\ committed'.last_position_id = k[2]
               /\ \A j \in old : j[2] < k[2]
          /\ \A k \in new :
               /\ committed'.positions[k].position_id = k[2]
               /\ k[2] \in 1..committed'.last_position_id
          /\ \A k1 \in new, k2 \in new : k1[2] = k2[2] => k1 = k2]_vars

\* the first position was opened in one market and closed, the second was
\* opened in the other market under the next id
C26_Witness ==
    /\ Idle
    /\ DOMAIN committed.positions = {<<"vamm", 1>>, <<"vamm2", 2>>}
    /\ committed.positions[<<"vamm", 1>>].size = 0
    /\ committed.positions[<<"vamm2", 2>>].size # 0
    /\ committed.last_position_id = 2

----------------------------------------------------------------------------
(* The position store on its own: positions are inserted under a free id,  *)
(* rewritten with a changed margin, and removed                            *)

IndexPriceSet == {4, 7}
IndexMarginSet == {5, 10}

IndexPosition(id, trader, side, entry_price, margin) ==
    [position_id |-> id, vamm |-> "vamm", trader |-> trader, side |-> side,
     direction |-> side_to_direction(side),
     size |-> IF side = "Buy" THEN 20 ELSE 0 - 20,
     margin |-> margin, notional |-> 20, entry_price |-> entry_price,
     take_profit |-> None, stop_loss |-> None,
     last_updated_premium_fraction |-> 0, spread_fee |-> 0, toll_fee |-> 0]

IndexWrite(s, label) ==
    /\ store' = s
    /\ committed' = s
    /\ result' = label
    /\ UNCHANGED <<queue, height, reserve, calc>>

InsertPosition ==
    \E id \in 1..MaxBatchPositionId, trader \in Traders, side \in Sides,
       entry_price \in IndexPriceSet :
        /\ ~Has(store.positions, <<"vamm", id>>)
        /\ IndexWrite(store_position(store, "vamm",
                          IndexPosition(id, trader, side, entry_price, 10), TRUE),
                      "inserted")

UpdatePosition ==
    \E key \in DOMAIN store.positions, margin \in IndexMarginSet :
        /\ store.positions[key].margin # margin
        /\ IndexWrite(store_position(store, key[1],
                          [store.positions[key] EXCEPT !.margin = margin], FALSE),
                      "updated")

RemovePosition ==
    \E key \in DOMAIN store.positions :
        IndexWrite(remove_position(store, key[1], store.positions[key]), "removed")

NextIndex ==
    \/ InsertPosition
    \/ UpdatePosition
    \/ RemovePosition

SpecIndex == Init /\ [][NextIndex]_vars

\* the number of stored positions of a market with the side and entry price
TickPositions(vamm, side, entry_price) ==
    Cardinality({key \in DOMAIN store.positions :
                    /\ key[1] = vamm
                    /\ store.positions[key].side = side
                    /\ store.positions[key].entry_price = entry_price})

\* C27: after any sequence of inserts, updates and removals, for every
\* (market, side, entry_price) the tick counter equals the number of stored
\* positions with that side and entry price, a tick entry exists only while
\* that number is positive, and the by-trader, by-side and by-price indices
\* hold exactly the ids of the stored positions.
C27_IndicesMatchStoredPositions ==
    /\ \A tkey \in DOMAIN store.tick :
          /\ tkey[1] \in Vamms /\ tkey[2] \in Sides /\ tkey[3] \in IndexPriceSet
          /\ store.tick[tkey] > 0
    /\ \A vamm \in Vamms, side \in Sides, entry_price \in IndexPriceSet :
          LET n == TickPositions(vamm, side, entry_price)
          IN /\ Has(store.tick, <<vamm, side, entry_price>>) <=> n > 0
             /\ n > 0 => store.tick[<<vamm, side, entry_price>>] = n
    /\ DOMAIN store.by_trader =
          {<<key[1], store.positions[key].trader, key[2]>> : key \in DOMAIN store.positions}
    /\ DOMAIN store.by_side =
          {<<key[1], store.positions[key].side, key[2]>> : key \in DOMAIN store.positions}
    /\ DOMAIN store.by_price =
          {<<key[1], store.positions[key].entry_price, key[2]>> : key \in DOMAIN store.positions}

\* one of two positions of a tick was removed after the other was updated
C27_Witness ==
    /\ result = "removed"
    /\ DOMAIN store.positions = {<<"vamm", 2>>}
    /\ store.positions[<<"vamm", 2>>].margin = 5
    /\ store.tick = (<<"vamm", "Buy", 4>> :> 1)

\* open, full close and full liquidation of a position, with the price moving
NextLifecycle ==
    \/ OpenPosition
    \/ ClosePosition
    \/ Liquidate
    \/ Deliver
    \/ VammMove
    \/ NextBlock

SpecLifecycle == Init /\ [][NextLifecycle]_vars

----------------------------------------------------------------------------
(* state.rs, utils.rs: the position listing on its own.  The keys of the   *)
(* position bucket are the big-endian bytes of the position id, and the    *)
(* bucket is ranged over in key order.                                     *)

\* Option::None of start_after (no key)
NoBytes == <<>>
NoOrder == ""
OrderBySet == {NoOrder, "Ascending", "Descending"}

\* u64::to_be_bytes of an id below 2^24: the five high bytes are zero
to_be_bytes(id) ==
    [i \in 1..8 |->
       IF i <= 5 THEN 0
       ELSE IF i = 6 THEN (id \div 65536) % 256
       ELSE IF i = 7 THEN (id \div 256) % 256
       ELSE id % 256]

\* u64::MAX.to_be_bytes()
U64_MAX_BYTES == [i \in 1..8 |-> 255]

\* the order of the keys in the bucket
BytesLess(a, b) ==
    \E i \in 1..8 : a[i] < b[i] /\ \A j \in 1..(i - 1) : a[j] = b[j]

\* the loop of calc_range_start from byte i down
RECURSIVE RangeStartFrom(_, _)
RangeStartFrom(input, i) ==
    IF i = 0 THEN input
    ELSE IF input[i] = 255 THEN RangeStartFrom([input EXCEPT ![i] = 0], i - 1)
    ELSE [input EXCEPT ![i] = input[i] + 1]

calc_range_start(start_after) ==
    IF start_after = NoBytes THEN NoBytes ELSE RangeStartFrom(start_after, 8)

PageLimitUncapped(limit) == IF limit = None THEN DEFAULT_LIMIT ELSE limit

\* limit.unwrap_or(DEFAULT_LIMIT).min(MAX_LIMIT)
PageLimit(limit) == Min(IF limit = None THEN DEFAULT_LIMIT ELSE limit, MAX_LIMIT)

\* start_after holds the bytes start_after.map(|id| id.to_be_bytes()) yields
read_positions(s, vamm, start_after, limit, order_by) ==
    LET start == IF order_by = "Ascending" THEN calc_range_start(start_after) ELSE NoBytes
        end == IF order_by = "Ascending" THEN NoBytes ELSE start_after
        InRange(id) ==
            /\ Has(s.positions, <<vamm, id>>)
            /\ start = NoBytes \/ ~BytesLess(to_be_bytes(id), start)
            /\ end = NoBytes \/ BytesLess(to_be_bytes(id), end)
        asc == SelectSeq([id \in 1..s.last_position_id |-> id], InRange)
        ids == Take(IF order_by = "Ascending" THEN asc ELSE Reverse(asc), PageLimit(limit))
    IN [i \in 1..Len(ids) |-> s.positions[<<vamm, ids[i]>>]]

\* stores of 0, 3, 12 and 101 positions, all in one market or every second one
ListCountSet == {0, 3, 12, 101}
ListStrideSet == {1, 2}
ListLimitSet == {None, 0, 1, 10, 11, 100, 101}
ListStartSet == {0, 1, 2, 50, 101, 255, 256}
ListStartAfterSet == {NoBytes, U64_MAX_BYTES} \cup {to_be_bytes(id) : id \in ListStartSet}

ListMarket(id, stride) == IF id % stride = 0 THEN "vamm" ELSE "vamm2"

ListStore(count, stride) ==
    [InitStore EXCEPT
       !.last_position_id = count,
       !.positions =
          [key \in {<<ListMarket(id, stride), id>> : id \in 1..count} |->
             IndexPosition(key[2], "alice", "Buy", 4, 10)]]

InitListing ==
    /\ \E count \in ListCountSet, stride \in ListStrideSet : store = ListStore(count, stride)
    /\ committed = store
    /\ queue = <<>>
    /\ height = 1
    /\ reserve = [quote_asset_reserve |-> BaseReserve, base_asset_reserve |-> BaseReserve]
    /\ result = ""
    /\ calc \in [used : {FALSE}, start_after : ListStartAfterSet, limit : ListLimitSet,
                 order_by : OrderBySet, listing : {<<>>}]

ApplyListing ==
    /\ ~calc.used
    /\ LET positions == read_positions(store, "vamm", calc.start_after, calc.limit,
                                       calc.order_by)
       IN calc' = [calc EXCEPT
                     !.used = TRUE,
                     !.listing = [i \in 1..Len(positions) |-> positions[i].position_id]]
    /\ UNCHANGED <<store, committed, queue, height, reserve, result>>

NextListing == ApplyListing

SpecListing == InitListing /\ [][NextListing]_vars

\* the ids stored in the market
ListedMarketIds == {key[2] : key \in {k \in DOMAIN store.positions : k[1] = "vamm"}}

\* C29: a position listing returns at most 10 positions when limit is omitted
\* or given as 0 (with 0 it returns none), at most limit positions when
\* 0 < limit <= 100, and at most 100 positions when limit > 100; without
\* start_after it returns as many as that bound and the store allow.
C29_ListingLengthIsBounded ==
    calc.used =>
      LET len == Len(calc.listing)
          bound == IF calc.limit = None THEN 10
                   ELSE IF calc.limit > 100 THEN 100 ELSE calc.limit
      IN /\ calc.limit = None \/ calc.limit = 0 => len <= 10
         /\ (calc.limit # None /\ 0 < calc.limit /\ calc.limit <= 100) => len <= calc.limit
         /\ (calc.limit # None /\ calc.limit > 100) => len <= 100
         /\ calc.start_after = NoBytes => len = Min(bound, Cardinality(ListedMarketIds))

\* 101 positions are stored and a page of 101 was asked for: 100 are returned
C29_Witness ==
    /\ calc.used
    /\ calc.limit = 101
    /\ Cardinality(ListedMarketIds) = 101
    /\ Len(calc.listing) = 100

\* the listing the claim describes: the stored ids beyond start_after in the
\* direction of the listing, in that order, truncated to the page limit
ExpectedListing ==
    LET Beyond(id) ==
            /\ id \in ListedMarketIds
            /\ calc.start_after = NoBytes
               \/ IF calc.order_by = "Ascending"
                  THEN BytesLess(calc.start_after, to_be_bytes(id))
                  ELSE BytesLess(to_be_bytes(id), calc.start_after)
        asc == SelectSeq([id \in 1..store.last_position_id |-> id], Beyond)
    IN Take(IF calc.order_by = "Ascending" THEN asc ELSE Reverse(asc), PageLimit(calc.limit))

\* C30: for every start_after value (including the largest u64), an ascending
\* listing returns exactly the stored positions whose id is strictly greater
\* than start_after, in increasing id order, and a descending listing exactly
\* those whose id is strictly less than start_after, in decreasing id order,
\* each truncated to the page limit.
C30_ListingIsStrictlyBeyondStartAfter ==
    calc.used => calc.listing = ExpectedListing

----------------------------------------------------------------------------
(* auth.rs: relayers and the trader whitelist *)

NextAuth ==
    \/ SetRelayer
    \/ RemoveRelayer
    \/ WhitelistTrader
    \/ RemoveWhitelistTrader
    \/ AddWhitelist
    \/ OpenPosition
    \/ Deliver

SpecAuth == Init /\ [][NextAuth]_vars

\* a request that is refused as unauthorized and writes nothing
RefusedAsUnauthorized(r) ==
    /\ ~r.ok
    /\ r.err = Unauthorized
    /\ r.store = store
    /\ r.msgs = <<>>

\* C31: the trader whitelist changes only through WhitelistTrader or
\* RemoveWhitelistTrader sent by a currently registered relayer, and the
\* relayer set only through SetRelayer or RemoveRelayer sent by the owner; the
\* same messages from any other sender (the owner included, on the trader
\* whitelist, when not a relayer) fail as unauthorized and change neither set.
C31_OnlyRelayersAndOwnerChangeTheSets ==
    [][/\ store'.whitelist_trader # store.whitelist_trader
            => \E sender \in store.relayer, traders \in SUBSET Traders :
                  LET env == Env(height, reserve, sender)
                  IN \/ store' = whitelist_trader(store, env, traders).store
                     \/ store' = remove_whitelist_trader(store, env, traders).store
       /\ store'.relayer # store.relayer
            => \E relayers \in SUBSET RelayerSet :
                  LET env == Env(height, reserve, store.config.owner)
                  IN \/ store' = set_relayer(store, env, relayers).store
                     \/ store' = remove_relayer(store, env, relayers).store
       /\ \A sender \in Addrs :
            LET env == Env(height, reserve, sender)
            IN /\ sender \notin store.relayer
                    => \A traders \in SUBSET Traders :
                          /\ RefusedAsUnauthorized(whitelist_trader(store, env, traders))
                          /\ RefusedAsUnauthorized(remove_whitelist_trader(store, env, traders))
               /\ sender # store.config.owner
                    => \A relayers \in SUBSET RelayerSet :
                          /\ RefusedAsUnauthorized(set_relayer(store, env, relayers))
                          /\ RefusedAsUnauthorized(remove_relayer(store, env, relayers))]_vars

\* bob was made a relayer and whitelisted alice; the owner, not a relayer, was
\* then refused on the trader whitelist
C31_Witness ==
    /\ Idle
    /\ store.relayer = {"bob"}
    /\ store.whitelist_trader = {"alice"}
    /\ result = Unauthorized
    /\ RefusedAsUnauthorized(whitelist_trader(store, Env(height, reserve, Owner), {"bob"}))

----------------------------------------------------------------------------
(* The TP/SL evaluator on its own: a close price, the two levels, the two  *)
(* spreads and a side are drawn and the evaluator applied                  *)

EvalPriceSet == {0, 1, 5, 7, 9, 12}
EvalTakeProfitSet == {0, 7, 10}
EvalStopLossSet == {0, 5, 7}
EvalSpreadSet == {0, 2}

InitEval ==
    /\ store = InitStore
    /\ committed = InitStore
    /\ queue = <<>>
    /\ height = 1
    /\ reserve \in ReserveSet
    /\ result = ""
    /\ calc \in [used : {FALSE}, close_price : EvalPriceSet,
                 take_profit : EvalTakeProfitSet, stop_loss : EvalStopLossSet,
                 tp_spread : EvalSpreadSet, sl_spread : EvalSpreadSet,
                 side : Sides, action : {""}]

ApplyEval ==
    /\ ~calc.used
    /\ calc' = [calc EXCEPT
                  !.used = TRUE,
                  !.action = check_tp_sl_price(calc.close_price, calc.take_profit,
                                 calc.stop_loss, calc.tp_spread, calc.sl_spread, calc.side)]
    /\ UNCHANGED <<store, committed, queue, height, reserve, result>>

NextEval == ApplyEval

SpecEval == InitEval /\ [][NextEval]_vars

EvalWithinTp == AbsDiff(calc.take_profit, calc.close_price) <= calc.tp_spread
EvalWithinSl == AbsDiff(calc.stop_loss, calc.close_price) <= calc.sl_spread

\* the action that follows from the two conditions of a side
EvalAction(take_profit_holds, stop_loss_holds) ==
    IF take_profit_holds THEN "trigger_take_profit"
    ELSE IF stop_loss_holds THEN "trigger_stop_loss"
    ELSE ""

\* C32 as stated: for a Buy position take-profit iff close_price > take_profit
\* or within tp_spread of it, otherwise stop-loss iff stop_loss > close_price
\* or within sl_spread, otherwise no action; mirrored for Sell; for all
\* values of the levels, zero included.
C32_EvaluatorComparesEveryLevel ==
    calc.used =>
      calc.action =
        IF calc.side = "Buy"
        THEN EvalAction(calc.close_price > calc.take_profit \/ EvalWithinTp,
                        calc.stop_loss > calc.close_price \/ EvalWithinSl)
        ELSE EvalAction(calc.take_profit > calc.close_price \/ EvalWithinTp,
                        calc.close_price > calc.stop_loss \/ EvalWithinSl)

\* C32: the evaluator returns for a Buy position take-profit iff take_profit
\* is non-zero and close_price > take_profit, or close_price is within
\* tp_spread of take_profit; otherwise stop-loss iff stop_loss is non-zero and
\* stop_loss > close_price or within sl_spread; for a Sell position
\* take-profit iff take_profit is non-zero and take_profit > close_price or
\* within tp_spread; otherwise stop-loss iff stop_loss is non-zero and
\* close_price > stop_loss, or close_price is within sl_spread of stop_loss;
\* otherwise no action.
C32_EvaluatorComparesSetLevels ==
    calc.used =>
      calc.action =
        IF calc.side = "Buy"
        THEN EvalAction((calc.take_profit > 0 /\ calc.close_price > calc.take_profit)
                           \/ EvalWithinTp,
                        calc.stop_loss > 0
                           /\ (calc.stop_loss > calc.close_price \/ EvalWithinSl))
        ELSE EvalAction(calc.take_profit > 0
                           /\ (calc.take_profit > calc.close_price \/ EvalWithinTp),
                        (calc.stop_loss > 0 /\ calc.close_price > calc.stop_loss)
                           \/ EvalWithinSl)

\* a Buy position without take profit and stop loss was evaluated above both
\* and nothing was triggered
C32_Witness ==
    /\ calc.used
    /\ calc.side = "Buy"
    /\ calc.take_profit = 0
    /\ calc.stop_loss = 0
    /\ calc.close_price = 12
    /\ calc.action = ""

\* the positions of the side on the first limit ticks in the given price
\* order, each tick's positions by ascending id
RECURSIVE SortDesc(_)
SortDesc(S) ==
    IF S = {} THEN <<>>
    ELSE LET m == CHOOSE x \in S : \A y \in S : x >= y
         IN <<m>> \o SortDesc(S \ {m})

BatchVisit(side, descending, limit) ==
    LET keys == {k \in DOMAIN store.positions :
                   k[1] = "vamm" /\ store.positions[k].side = side}
        prices == {store.positions[k].entry_price : k \in keys}
        ticks == Take(IF descending THEN SortDesc(prices) ELSE SortAsc(prices), limit)
        OnTick(entry_price) ==
            Take(SortAsc({k[2] : k \in {j \in keys :
                            store.positions[j].entry_price = entry_price}}), DEFAULT_LIMIT)
    IN Flatten([i \in 1..Len(ticks) |-> OnTick(ticks[i])])

\* the vAMM's reserves after it has closed the position in full
ReserveAfterClose(rsv, position) ==
    LET quote == get_output_price_with_reserves(position.direction, Abs(position.size),
                     rsv.quote_asset_reserve, rsv.base_asset_reserve)
    IN IF position.size > 0
       THEN [quote_asset_reserve |-> rsv.quote_asset_reserve - quote,
             base_asset_reserve |-> rsv.base_asset_reserve + Abs(position.size)]
       ELSE [quote_asset_reserve |-> rsv.quote_asset_reserve + quote,
             base_asset_reserve |-> rsv.base_asset_reserve - Abs(position.size)]

\* the ids closed and the reserves reached when each position of ids in turn
\* is judged at the reserves left by the closes before it: [closed, reserve]
RECURSIVE BatchExpected(_, _, _)
BatchExpected(ids, rsv, do_tp) ==
    IF ids = <<>> THEN [closed |-> <<>>, reserve |-> rsv]
    ELSE LET position == store.positions[<<"vamm", Head(ids)>>]
         IN IF TpSlFlag(store, position, rsv, do_tp).flag
            THEN LET rest == BatchExpected(Tail(ids), ReserveAfterClose(rsv, position), do_tp)
                 IN [rest EXCEPT !.closed = <<Head(ids)>> \o @]
            ELSE BatchExpected(Tail(ids), rsv, do_tp)

\* C33: in a TriggerMultipleTpSl batch the positions are evaluated tick by
\* tick, descending price when take_profit = (side = Buy) and ascending
\* otherwise, and each position's close price is quoted against a local copy
\* of the vAMM reserves that reflects exactly the closes issued earlier in the
\* batch, each applied to the quote and the base reserve, and none for a
\* position that was not triggered; the batch sends the vAMM nothing but those
\* closes, in that order.
C33_BatchQuotesAgainstSimulatedReserves ==
    Idle =>
      \A side \in Sides, do_tp \in BOOLEAN, limit \in LimitSet :
        LET out == TriggerBatch(store, Env(height, reserve, "bob"), "vamm", side, do_tp, limit)
            expected == BatchExpected(BatchVisit(side, do_tp = (side = "Buy"), limit),
                                      reserve, do_tp)
        IN out.err = ""
           => /\ [i \in 1..Len(out.msgs) |-> out.msgs[i].position_id] = expected.closed
              /\ \A i \in 1..Len(out.msgs) :
                   /\ out.msgs[i].id = CLOSE_POSITION_REPLY_ID
                   /\ out.msgs[i].kind = "swap_output"
              /\ out.tmp_reserve = expected.reserve

\* a batch closes two positions, the second judged at moved reserves
C33_Witness ==
    /\ Idle
    /\ \E side \in Sides, do_tp \in BOOLEAN, limit \in LimitSet :
         LET out == TriggerBatch(store, Env(height, reserve, "bob"), "vamm", side, do_tp, limit)
         IN /\ out.err = ""
            /\ Len(out.msgs) = 2
            /\ out.tmp_reserve # reserve

\* C34: set_pause changes the pause state only when sent by the pauser and
\* only to a state different from the current one; a call by any other
\* sender, or a call by the pauser requesting the current state again, fails
\* as "unauthorized" and leaves the pause state (and the rest of the store)
\* unchanged.
C34_SetPauseByPauserToAnotherState ==
    [][/\ store'.state.pause # store.state.pause
            => /\ store' = set_pause(store, Env(height, reserve, store.pauser),
                                     store'.state.pause).store
               /\ result' = "ok"
       /\ \A sender \in Addrs, pause \in PauseTypes :
            LET r == set_pause(store, Env(height, reserve, sender), pause)
            IN IF sender = store.pauser /\ pause # store.state.pause
               THEN r.ok /\ r.store = [store EXCEPT !.state.pause = pause]
               ELSE ~r.ok /\ r.err = "unauthorized" /\ r.store = store]_vars

\* the pauser has paused closes, and asking for the same state again was
\* refused
C34_Witness ==
    /\ Idle
    /\ store.state.pause = "Close"
    /\ committed.state.pause = "Close"
    /\ result = "unauthorized"
    /\ ~set_pause(store, Env(height, reserve, store.pauser), "Close").ok

----------------------------------------------------------------------------
(* The permissionless triggers while other parties sell the vAMM down      *)

\* the same pool (quote * base unchanged) after shorts have taken the price
\* below one unit of quote per Decimals units of base
CollapsedReserve == [quote_asset_reserve |-> 4, base_asset_reserve |-> 100000]

VammCollapse ==
    /\ Idle
    /\ reserve # CollapsedReserve
    /\ reserve' = CollapsedReserve
    /\ UNCHANGED <<store, committed, queue, height, result, calc>>

NextTrigger ==
    \/ OpenPositionBatch
    \/ TriggerTpSl
    \/ TriggerMultipleTpSl
    \/ Deliver
    \/ VammMove
    \/ VammCollapse

SpecTrigger == Init /\ [][NextTrigger]_vars

\* the ids the batch trigger closes
BatchClosed(side, do_tp, limit) ==
    LET r == trigger_mutiple_tp_sl(store, Env(height, reserve, "bob"), "vamm", side, do_tp, limit)
    IN {r.msgs[i].position_id : i \in 1..Len(r.msgs)}

\* C35: a position with no take profit (unset or 0) is never closed by
\* trigger_tp_sl or trigger_multiple_tp_sl in take-profit mode, at any close
\* price, and a position with no stop loss never in stop-loss mode.
C35_UnsetLevelIsNeverTriggered ==
    Idle =>
      \A k \in DOMAIN store.positions, do_tp \in BOOLEAN :
        LET position == store.positions[k]
            level == IF do_tp THEN position.take_profit ELSE position.stop_loss
        IN Unwrap(level) = 0
           => /\ trigger_tp_sl(store, Env(height, reserve, "bob"), k[1], k[2], do_tp).msgs = <<>>
              /\ \A side \in Sides, limit \in LimitSet :
                   k[2] \notin BatchClosed(side, do_tp, limit)

----------------------------------------------------------------------------
(* The four requests on a position, from its trader and from the others    *)

NextOwner ==
    \/ OpenPosition
    \/ ClosePosition
    \/ DepositMargin
    \/ WithdrawMargin
    \/ UpdateTpSl
    \/ SetPause
    \/ Deliver

SpecOwner == Init /\ [][NextOwner]_vars

OwnerAmountSet == {0, 5}

\* the request is refused, issues nothing and writes nothing
Refused(r) == ~r.ok /\ r.msgs = <<>> /\ r.store = store

\* the four requests on the stored position k from sender, as outcomes
OwnerRequests(k, sender, market_ok) ==
    LET env == [Env(height, reserve, sender) EXCEPT !.is_vamm = market_ok] IN
    [close |-> {close_position(store, [env EXCEPT !.over_fluctuation = over],
                               k[1], k[2], 0) : over \in BOOLEAN},
     deposit |-> {deposit_margin(store, env, k[1], k[2], a) : a \in OwnerAmountSet},
     withdraw |-> {withdraw_margin(store, env, k[1], k[2], a) : a \in OwnerAmountSet},
     update |-> {update_tp_sl(store, env, k[1], k[2], tp, sl) :
                   tp \in TpSlSet, sl \in TpSlSet}]

C37_QueryPredictsTheBatch ==
    Idle =>
      \A side \in Sides, do_tp \in BOOLEAN, limit \in LimitSet :
        LET env == Env(height, reserve, "bob")
            r == trigger_mutiple_tp_sl(store, env, "vamm", side, do_tp, limit)
            q == query_position_is_tpsl(store, env, "vamm", side, do_tp, limit)
        IN r.ok => /\ q.err = ""
                   /\ (r.msgs # <<>>) <=> q.is_tpsl

\* a batch over two ticks succeeds and closes the position of the second
\* tick only, and the query answers true
C37_Witness ==
    /\ Idle
    /\ \E side \in Sides, do_tp \in BOOLEAN, limit \in LimitSet :
         LET env == Env(height, reserve, "bob")
             r == trigger_mutiple_tp_sl(store, env, "vamm", side, do_tp, limit)
             order_by == IF do_tp = (side = "Buy") THEN "Descending" ELSE "Ascending"
             ticks == query_ticks(store, "vamm", side, limit, order_by)
         IN /\ r.ok
            /\ Len(r.msgs) = 1
            /\ Len(ticks) = 2
            /\ store.positions[<<"vamm", r.msgs[1].position_id>>].entry_price = ticks[2]
            /\ query_position_is_tpsl(store, env, "vamm", side, do_tp, limit).is_tpsl

----------------------------------------------------------------------------
(* The configured ratios: instantiate with the ratios of its message, then *)
(* update_config with any of the ratios, from the owner and from others    *)

\* ratios below, at and above one (Decimals)
ConfigRatioSet == {0, 3, 10, 11}
ConfigOptionSet == ConfigRatioSet \cup {None}

InitConfig ==
    /\ \E initial \in ConfigRatioSet, maintenance \in ConfigRatioSet,
          fee \in ConfigRatioSet, spread \in {0, 3} :
         LET r == instantiate(initial, maintenance, fee, spread)
         IN r.ok /\ store = r.store /\ committed = r.store
    /\ queue = <<>>
    /\ height = 1
    /\ reserve = [quote_asset_reserve |-> 1000, base_asset_reserve |-> BaseReserve]
    /\ result = ""
    /\ calc = NoCalc

UpdateConfigRatios ==
    \E sender \in {Owner, "bob"}, initial \in ConfigOptionSet,
       maintenance \in ConfigOptionSet, partial \in ConfigOptionSet,
       spread \in {None, 3}, fee \in ConfigOptionSet :
        Submit(update_config(store, Env(height, reserve, sender),
                             initial, maintenance, partial, spread, fee))

NextConfig == UpdateConfigRatios

SpecConfig == InitConfig /\ [][NextConfig]_vars

\* C38: after instantiate and after any sequence of update_config calls,
\* accepted or rejected, the stored configuration satisfies
\* maintenance_margin_ratio <= initial_margin_ratio <= decimals, and
\* partial_liquidation_ratio and liquidation_fee are each <= decimals.
C38_ConfiguredRatiosStayOrdered ==
    \A config \in {store.config, committed.config} :
      /\ config.maintenance_margin_ratio <= config.initial_margin_ratio
      /\ config.initial_margin_ratio <= config.decimals
      /\ config.partial_liquidation_ratio <= config.decimals
      /\ config.liquidation_fee <= config.decimals

\* both margin ratios have been raised in one update to the same value, the
\* partial liquidation ratio set, and a later update was rejected for its
\* margin ratios
C38_Witness ==
    /\ store.config.initial_margin_ratio = 10
    /\ store.config.maintenance_margin_ratio = 10
    /\ store.config.partial_liquidation_ratio = 3
    /\ result = "Incorrect initialisation of margin ratios, initial >= maintenance"

----------------------------------------------------------------------------
(* utils.rs: realize_bad_debt on its own: a bad debt and a prepaid bad     *)
(* debt are drawn and the function applied                                 *)

\* messages.rs: the withdrawal the engine asks of the insurance fund
execute_insurance_fund_withdrawal(amount) ==
    [kind |-> "insurance_fund_withdraw", amount |-> amount]

\* [state, messages, amount]: the state and the messages as the function
\* leaves them, and the amount it returns
realize_bad_debt(bad_debt, messages, state) ==
    IF state.prepaid_bad_debt > bad_debt
    THEN [state |-> [state EXCEPT !.prepaid_bad_debt = @ - bad_debt],
          messages |-> messages,
          amount |-> 0]
    ELSE LET bad_debt_delta == bad_debt - state.prepaid_bad_debt
         IN [state |-> [state EXCEPT !.prepaid_bad_debt = 0],
             messages |-> Append(messages, execute_insurance_fund_withdrawal(bad_debt_delta)),
             amount |-> bad_debt_delta]

BadDebtSet == 0..7

InitBadDebt ==
    /\ store = InitStore
    /\ committed = InitStore
    /\ queue = <<>>
    /\ height = 1
    /\ reserve = [quote_asset_reserve |-> 1000, base_asset_reserve |-> BaseReserve]
    /\ result = ""
    /\ calc \in [used : {FALSE}, bad_debt : BadDebtSet, prepaid_bad_debt : BadDebtSet,
                 realized : {[state |-> InitStore.state, messages |-> <<>>, amount |-> 0]}]

ApplyRealizeBadDebt ==
    /\ ~calc.used
    /\ calc' = [calc EXCEPT
                  !.used = TRUE,
                  !.realized = realize_bad_debt(calc.bad_debt, <<>>,
                                   [InitStore.state EXCEPT
                                      !.prepaid_bad_debt = calc.prepaid_bad_debt])]
    /\ UNCHANGED <<store, committed, queue, height, reserve, result>>

NextBadDebt == ApplyRealizeBadDebt

SpecBadDebt == InitBadDebt /\ [][NextBadDebt]_vars

\* C39: realizing a bad debt b against prepaid bad debt p requests
\* max(b - p, 0) from the insurance fund, leaves max(p - b, 0) prepaid, and
\* issues no insurance-fund withdrawal when b <= p (in particular when b = 0).
C39_RealizeBadDebtAgainstPrepaid ==
    calc.used =>
      LET b == calc.bad_debt
          p == calc.prepaid_bad_debt
      IN /\ calc.realized.amount = Max(b - p, 0)
         /\ calc.realized.state.prepaid_bad_debt = Max(p - b, 0)
         /\ b <= p => calc.realized.messages = <<>>

----------------------------------------------------------------------------
(* margined_staking: handle.rs, distributor.rs, helper.rs.  The staking    *)
(* contract's storage is kept in calc: is_open, TOTAL_STAKED,              *)
(* REWARDS_PER_TOKEN and USER_STAKE, an absent entry of which every reader *)
(* takes for the default stake                                             *)

Stakers == Traders
StakeAmountSet == {0, 1, 2}
BlockRewardSet == {0, 3}
\* 10 ^ decimals of the reward token
StakeDecimalPlaces == 10
StakingContract == "staking"
StakingPaused == "Cannot perform action as contract is paused"
StakingInvalidFunds == "Invalid funds"
StakingOverflow == "Overflow"

DefaultUserStake ==
    [staked_amounts |-> 0, claimable_rewards |-> 0,
     previous_cumulative_rewards_per_token |-> 0, cumulative_rewards |-> 0]

\* the storage after instantiate: closed until the owner unpauses, nothing staked
InitStakingStore ==
    [is_open |-> FALSE, total_staked |-> 0, rewards_per_token |-> 0,
     user_stake |-> [a \in Stakers |-> DefaultUserStake]]

StakingOk(st, msgs) == [ok |-> TRUE, err |-> "", st |-> st, msgs |-> msgs]
StakingErr(st, e) == [ok |-> FALSE, err |-> e, st |-> st, msgs |-> <<>>]

\* distributor.rs: block_rewards is what calculate_rewards returns for the
\* block (pending rewards capped by the fee pool's balance)
update_rewards(st, block_rewards, account) ==
    IF block_rewards = 0 THEN st
    ELSE
      LET supply == st.total_staked
          cumulative_rewards ==
            IF supply # 0
            THEN st.rewards_per_token + (block_rewards * StakeDecimalPlaces) \div supply
            ELSE st.rewards_per_token
          paid == [st EXCEPT !.rewards_per_token = cumulative_rewards]
          user == st.user_stake[account]
          delta_rewards == cumulative_rewards - user.previous_cumulative_rewards_per_token
          account_reward == (user.staked_amounts * delta_rewards) \div StakeDecimalPlaces
          claimable == user.claimable_rewards + account_reward
          updated ==
            [user EXCEPT
               !.claimable_rewards = claimable,
               !.previous_cumulative_rewards_per_token = cumulative_rewards,
               !.cumulative_rewards =
                   IF claimable # 0 /\ user.staked_amounts # 0 THEN @ + claimable ELSE @]
      IN IF account = StakingContract THEN paid
         ELSE [paid EXCEPT !.user_stake[account] = updated]

\* helper.rs
create_distribute_message_and_update_response(msgs, amount) ==
    IF amount # 0
    THEN Append(msgs, [kind |-> "send_token", amount |-> amount, recipient |-> StakingContract])
    ELSE msgs

_handle_stake(st, sender, sent_funds, block_rewards) ==
    LET rewarded == update_rewards(st, block_rewards, sender)
        staked == [rewarded EXCEPT
                     !.user_stake[sender].staked_amounts = @ + sent_funds,
                     !.total_staked = @ + sent_funds]
    IN StakingOk(staked, create_distribute_message_and_update_response(<<>>, block_rewards))

\* must_pay refuses a message without funds of the deposit denom
handle_stake(st, sender, sent_funds, block_rewards) ==
    IF ~st.is_open THEN StakingErr(st, StakingPaused)
    ELSE IF sent_funds = 0 THEN StakingErr(st, StakingInvalidFunds)
    ELSE _handle_stake(st, sender, sent_funds, block_rewards)

HandleUnstakeKeepsTotal(st, sender, amount, block_rewards) ==
    LET rewarded == update_rewards(st, block_rewards, sender)
        user == rewarded.user_stake[sender]
    IN IF ~st.is_open THEN StakingErr(st, StakingPaused)
       ELSE IF user.staked_amounts < amount THEN StakingErr(st, StakingOverflow)
       ELSE StakingOk([rewarded EXCEPT !.user_stake[sender].staked_amounts = @ - amount],
               Append(create_distribute_message_and_update_response(<<>>, block_rewards),
                      [kind |-> "transfer", amount |-> amount, recipient |-> sender]))

handle_unstake(st, sender, amount, block_rewards) ==
    LET rewarded == update_rewards(st, block_rewards, sender)
        user == rewarded.user_stake[sender]
    IN IF ~st.is_open THEN StakingErr(st, StakingPaused)
       \* checked_sub on the stake, then on the total
       ELSE IF user.staked_amounts < amount THEN StakingErr(st, StakingOverflow)
       ELSE IF rewarded.total_staked < amount THEN StakingErr(st, StakingOverflow)
       ELSE StakingOk([rewarded EXCEPT
                         !.user_stake[sender].staked_amounts = @ - amount,
                         !.total_staked = @ - amount],
               Append(create_distribute_message_and_update_response(<<>>, block_rewards),
                      [kind |-> "transfer", amount |-> amount, recipient |-> sender]))

handle_claim(st, sender, block_rewards) ==
    LET rewarded == update_rewards(st, block_rewards, sender)
        claimable_amount == rewarded.user_stake[sender].claimable_rewards
        distributed == create_distribute_message_and_update_response(<<>>, block_rewards)
    IN IF ~st.is_open THEN StakingErr(st, StakingPaused)
       ELSE StakingOk([rewarded EXCEPT !.user_stake[sender].claimable_rewards = 0],
               IF claimable_amount # 0
               THEN Append(distributed, [kind |-> "transfer", amount |-> claimable_amount,
                                         recipient |-> sender])
               ELSE distributed)

handle_pause(st, sender) ==
    IF sender # Owner THEN StakingErr(st, Unauthorized)
    ELSE IF ~st.is_open THEN StakingErr(st, StakingPaused)
    ELSE StakingOk([st EXCEPT !.is_open = FALSE], <<>>)

handle_unpause(st, sender) ==
    IF sender # Owner THEN StakingErr(st, Unauthorized)
    ELSE IF st.is_open THEN StakingErr(st, "Contract is not paused")
    ELSE StakingOk([st EXCEPT !.is_open = TRUE], <<>>)

InitStaking ==
    /\ store = InitStore
    /\ committed = InitStore
    /\ queue = <<>>
    /\ height = 1
    /\ reserve = [quote_asset_reserve |-> 1000, base_asset_reserve |-> BaseReserve]
    /\ result = ""
    /\ calc = InitStakingStore

\* the host keeps the writes of an accepted message and none of a failed one
StakingSubmit(r) ==
    /\ calc' = IF r.ok THEN r.st ELSE calc
    /\ result' = IF r.ok THEN "ok" ELSE r.err
    /\ UNCHANGED <<store, committed, queue, height, reserve>>

\* the rewards a block may bring, none once the cumulative rewards per token
\* have reached the bound
BlockRewards == IF calc.rewards_per_token < MaxRewardsPerToken THEN BlockRewardSet ELSE {0}

Stake ==
    \E sender \in Stakers, sent_funds \in StakeAmountSet, block_rewards \in BlockRewards :
        /\ calc.total_staked + sent_funds <= MaxStaked
        /\ StakingSubmit(handle_stake(calc, sender, sent_funds, block_rewards))

Unstake ==
    \E sender \in Stakers, amount \in StakeAmountSet, block_rewards \in BlockRewards :
        StakingSubmit(handle_unstake(calc, sender, amount, block_rewards))

Claim ==
    \E sender \in Stakers, block_rewards \in BlockRewards :
        StakingSubmit(handle_claim(calc, sender, block_rewards))

StakingPause ==
    \E sender \in {Owner, "bob"} : StakingSubmit(handle_pause(calc, sender))

StakingUnpause ==
    \E sender \in {Owner, "bob"} : StakingSubmit(handle_unpause(calc, sender))

NextStaking ==
    \/ Stake
    \/ Unstake
    \/ Claim
    \/ StakingPause
    \/ StakingUnpause

SpecStaking == InitStaking /\ [][NextStaking]_vars

RECURSIVE SumStaked(_, _)
SumStaked(st, users) ==
    IF users = {} THEN 0
    ELSE LET u == CHOOSE x \in users : TRUE
         IN st.user_stake[u].staked_amounts + SumStaked(st, users \ {u})

\* C40: in the staking contract, after any sequence of stake, unstake and
\* claim operations by any users, the recorded total staked equals the sum of
\* all users' staked amounts; an unstake of more than the caller's staked
\* amount fails and changes neither the caller's stake nor the total.
C40_TotalStakedIsTheSumOfStakes ==
    /\ calc.total_staked = SumStaked(calc, Stakers)
    /\ \A sender \in Stakers, amount \in StakeAmountSet, block_rewards \in BlockRewardSet :
         amount > calc.user_stake[sender].staked_amounts
         => LET r == handle_unstake(calc, sender, amount, block_rewards)
            IN ~r.ok /\ r.msgs = <<>> /\ r.st = calc

\* alice and bob hold stakes, rewards have been distributed, a part has been
\* unstaked, and an unstake of more than the caller holds has just failed
C40_Witness ==
    /\ calc.user_stake["alice"].staked_amounts = 1
    /\ calc.user_stake["bob"].staked_amounts = 2
    /\ calc.total_staked = 3
    /\ calc.rewards_per_token > 0
    /\ calc.user_stake["alice"].claimable_rewards > 0
    /\ calc.is_open
    /\ result = StakingOverflow

====
